---- MODULE Spec2Model ----
(***************************************************************************)
(* A model of tingbok's SKOS resolver (src/src/tingbok/services/skos.py):  *)
(* the on-disk cache store (positive files and the consolidated            *)
(* _not_found.json), the upstream adapters, the cache-through              *)
(* lookup_concept, the recursive build_hierarchy_paths, get_labels,        *)
(* get_labels_batch and cache_stats, and the handlers of                   *)
(* src/src/tingbok/routers/skos.py that answer from them.                  *)
(*                                                                         *)
(* Spec    lookup_concept and the cache store, no I/O fault.               *)
(* SpecIO  lookup_concept with its cache write taken step by step (mkdir,  *)
(*         open, dump), each of which may fail, over cache files of any    *)
(*         JSON shape.                                                     *)
(* SpecH   build_hierarchy_paths, frame by frame, over taxonomies given by *)
(*         what lookup_concept answers for each label.                     *)
(* SpecL   get_labels and get_labels_batch.                                *)
(* SpecS   cache_stats after lookups and get_labels on an empty directory. *)
(* SpecR   the lookup and hierarchy handlers: status and body.             *)
(* SpecJ   a record saved, loaded and saved again, as JSON text.           *)
(* SpecC   two threads in lookup_concept on one directory, system call by  *)
(*         system call.                                                    *)
(* SpecT   the two freshness tests at times around the TTL.                *)
(* SpecE   lookup_concept on a directory with a positive record, with or   *)
(*         without uri, next to a negative file.                           *)
(* SpecU   the upstream adapters on search answers whose candidates may    *)
(*         lack a URI.                                                     *)
(* SpecG   build_hierarchy_paths over further taxonomies: records without  *)
(*         URI, labels that normalise alike, a mapped root as the start.   *)
(* SpecP   lookups one after the other on a directory that starts empty.   *)
(* SpecM   get_labels calls that ask for different languages.              *)
(* SpecB   lookups whose request for the broader concepts may fail.        *)
(* SpecF   every operation on a directory that holds a _not_found.json.    *)
(***************************************************************************)
EXTENDS Integers, Sequences, FiniteSets, TLC

(***************************************************************************)
(* Bounds of the model.                                                    *)
(***************************************************************************)
\* Resolver operations (lookup_concept or a direct _add_to_not_found_cache) per run.
MaxOps == 2
\* Advances of the wall clock per run.
MaxAdvances == 2
\* Broader links of the longest linear taxonomy a hierarchy walk is run on.
MaxChain == 16

(***************************************************************************)
(* Program constants and the values the inputs are drawn from.             *)
(***************************************************************************)
CACHE_TTL_SECONDS == 60 * 60 * 24 * 60

\* The wall clock (time.time()) when the run starts.
StartTime == 2 * CACHE_TTL_SECONDS

\* The clock moves by a second or by a whole TTL.
ClockSteps == {1, CACHE_TTL_SECONDS}

Labels == {"Potato"}
Langs == {"en"}
KnownSources == {"agrovoc", "dbpedia", "wikidata"}
Sources == KnownSources \cup {"gnd"}

\* Python's None.
None == [none |-> TRUE]

\* The ASCII letters and digits.
UpperCase ==
  <<"A", "B", "C", "D", "E", "F", "G", "H", "I", "J", "K", "L", "M",
    "N", "O", "P", "Q", "R", "S", "T", "U", "V", "W", "X", "Y", "Z">>
LowerCase ==
  <<"a", "b", "c", "d", "e", "f", "g", "h", "i", "j", "k", "l", "m",
    "n", "o", "p", "q", "r", "s", "t", "u", "v", "w", "x", "y", "z">>
Digit == <<"0", "1", "2", "3", "4", "5", "6", "7", "8", "9">>

\* str.lower() on the strings of the model.
Lower(s) ==
  CASE s = "Potato" -> "potato"
    [] s = "Spud" -> "spud"
    [] OTHER -> s

(***************************************************************************)
(* Cache store.                                                            *)
(***************************************************************************)
\* hashlib.sha256(key.encode()).hexdigest()[:16]: a digest that tells keys apart.
Sha256Hex16(key) == "sha256(" \o key \o ")"

\* "".join(c if c.isalnum() else "_" for c in key[:50]) for a key given by its
\* ":"-separated parts, each of them alphanumeric.
SafeKey(parts) == parts[1] \o "_" \o parts[2] \o "_" \o parts[3] \o "_" \o parts[4]

KeyString(parts) == parts[1] \o ":" \o parts[2] \o ":" \o parts[3] \o ":" \o parts[4]

\* cache_key = f"concept:{source}:{lang}:{label.lower()}", as its parts.
ConceptKeyParts(label, lang, source) == <<"concept", source, lang, Lower(label)>>

ConceptKey(label, lang, source) == KeyString(ConceptKeyParts(label, lang, source))

_get_cache_path(parts) == SafeKey(parts) \o "_" \o Sha256Hex16(KeyString(parts)) \o ".json"

ConceptPath(label, lang, source) == _get_cache_path(ConceptKeyParts(label, lang, source))

_get_not_found_cache_path == "_not_found.json"

ConceptKeys == {ConceptKey(l, g, s) : l \in Labels, g \in Langs, s \in Sources}
ConceptPaths == {ConceptPath(l, g, s) : l \in Labels, g \in Langs, s \in Sources}

\* The concept URIs labels are asked for: an AGROVOC one and a Wikidata one.
LabelUris == <<"http://aims.fao.org/aos/agrovoc/c_13551", "http://www.wikidata.org/entity/Q10998">>
UriSet == {LabelUris[i] : i \in 1..Len(LabelUris)}

\* hashlib.md5(uri.encode()).hexdigest()[:16]: an alphanumeric digest that tells
\* URIs apart.
Md5Hex16(uri) == "md5x" \o ToString(CHOOSE i \in 1..Len(LabelUris) : LabelUris[i] = uri)

\* Faulty variant: the digest of the URI is left out of the key.
LabelsKey_per_source(uri, source) == "labels:" \o source \o ":"

\* cache_key = f"labels:{source}:{uri_hash}"
LabelsKey(uri, source) == "labels:" \o source \o ":" \o Md5Hex16(uri)

\* c.isalnum() for an ASCII character
IsAlnum(c) ==
  \/ \E i \in 1..Len(UpperCase) : c = UpperCase[i] \/ c = LowerCase[i]
  \/ \E i \in 1..Len(Digit) : c = Digit[i]

\* The limit of key[:50].
SAFE_KEY_CHARS == 50

\* safe_key = "".join(c if c.isalnum() else "_" for c in key[:50]) on the characters
\* of the key.
SafeKeyOf(key) ==
  LET n == IF Len(key) < SAFE_KEY_CHARS THEN Len(key) ELSE SAFE_KEY_CHARS
      safe[i \in 0..n] ==
        IF i = 0 THEN ""
        ELSE safe[i - 1] \o (IF IsAlnum(SubSeq(key, i, i)) THEN SubSeq(key, i, i) ELSE "_")
  IN safe[n]

\* _get_cache_path(cache_dir, cache_key) for a labels key
LabelsPath(uri, source) ==
  SafeKeyOf(LabelsKey(uri, source)) \o "_" \o Sha256Hex16(LabelsKey(uri, source)) \o ".json"

LabelsKeys == {LabelsKey(u, s) : u \in UriSet, s \in Sources}
\* The files a labels key can name, with or without the digest of the URI.
LabelsPaths ==
  {LabelsPath(u, s) : u \in UriSet, s \in Sources}
    \cup {SafeKeyOf(k) \o "_" \o Sha256Hex16(k) \o ".json" :
            k \in {"labels:" \o s \o ":" : s \in Sources}}
Paths == ConceptPaths \cup LabelsPaths \cup {_get_not_found_cache_path}

\* What a path of the cache directory holds: no file, a file that cannot be
\* read or parsed, or a file holding a JSON object.
Missing == [kind |-> "missing"]
Corrupt == [kind |-> "corrupt"]
Json(data) == [kind |-> "json", data |-> data]

\* Well-formed JSON that json.load accepts and the code after it does not expect:
\* a value that is not an object ([], "x", 3, null), and an object whose _cached_at
\* is not a number (a string, null); data holds the other members of the object.
JsonNonObject == [kind |-> "json_non_object"]
JsonBadStamp(data) == [kind |-> "json_bad_stamp", data |-> data]

\* A file that open(path, "w") has truncated and json.dump has not completed: a
\* reader gets json.JSONDecodeError from it.
Truncated == Corrupt

\* An exception that leaves the function instead of a return value.
Raises(exception) == [raises |-> exception]
IsRaise(v) == "raises" \in DOMAIN v

\* dict.get(field, default) on a JSON object.
Get(data, field, default) == IF field \in DOMAIN data THEN data[field] ELSE default

\* {**data, field: value}
With(data, field, value) ==
  [f \in DOMAIN data \cup {field} |-> IF f = field THEN value ELSE data[f]]

\* _load_from_cache with the freshness bound made exclusive: a record aged exactly
\* the TTL is dropped.
_load_from_cache_strict(fs, cache_path, t) ==
  IF fs[cache_path].kind # "json" THEN None
  ELSE IF t - Get(fs[cache_path].data, "_cached_at", 0) >= CACHE_TTL_SECONDS THEN None
  ELSE fs[cache_path].data

\* The except clause catches json.JSONDecodeError and OSError only: data.get on a
\* value that is not a dict raises AttributeError, and time.time() minus a value that
\* is not a number raises TypeError.
_load_from_cache(fs, cache_path, t) ==
  IF fs[cache_path].kind = "missing" THEN None
  ELSE IF fs[cache_path].kind = "corrupt" THEN None
  ELSE IF fs[cache_path].kind = "json_non_object" THEN Raises("AttributeError")
  ELSE IF fs[cache_path].kind = "json_bad_stamp" THEN Raises("TypeError")
  ELSE IF t - Get(fs[cache_path].data, "_cached_at", 0) > CACHE_TTL_SECONDS THEN None
  ELSE fs[cache_path].data

\* open(cache_path, "w") succeeds iff ok.
_save_to_cache(fs, cache_path, data, t, ok) ==
  LET payload == With(data, "_cached_at", t)
  IN IF ok THEN [fs EXCEPT ![cache_path] = Json(payload)] ELSE fs

\* _is_in_not_found_cache with the freshness bound made exclusive.
_is_in_not_found_cache_strict(fs, key, t) ==
  LET f == fs[_get_not_found_cache_path]
  IN IF f.kind # "json" THEN FALSE
     ELSE LET entries == Get(f.data, "entries", <<>>)
          IN IF key \notin DOMAIN entries THEN FALSE
             ELSE t - Get(entries[key], "cached_at", 0) < CACHE_TTL_SECONDS

\* _is_in_not_found_cache with a TTL of its own, of one day.
_is_in_not_found_cache_one_day(fs, key, t) ==
  LET f == fs[_get_not_found_cache_path]
  IN IF f.kind # "json" THEN FALSE
     ELSE LET entries == Get(f.data, "entries", <<>>)
          IN IF key \notin DOMAIN entries THEN FALSE
             ELSE t - Get(entries[key], "cached_at", 0) <= 60 * 60 * 24

_is_in_not_found_cache(fs, key, t) ==
  LET f == fs[_get_not_found_cache_path]
  IN IF f.kind = "missing" THEN FALSE
     ELSE IF f.kind = "corrupt" THEN FALSE
     ELSE LET entries == Get(f.data, "entries", <<>>)
          IN IF key \notin DOMAIN entries THEN FALSE
             ELSE t - Get(entries[key], "cached_at", 0) <= CACHE_TTL_SECONDS

\* _add_to_not_found_cache without the read of the existing file: the file is
\* rewritten with the new key alone.
_add_to_not_found_cache_alone(fs, key, t, ok) ==
  IF ok
  THEN [fs EXCEPT ![_get_not_found_cache_path] =
          Json([entries |-> [k \in {key} |-> [cached_at |-> t]]])]
  ELSE fs

_add_to_not_found_cache(fs, key, t, ok) ==
  LET f == fs[_get_not_found_cache_path]
      data == IF f.kind = "json" THEN f.data ELSE [entries |-> <<>>]
      entries == Get(data, "entries", <<>>)
      updated == [k \in DOMAIN entries \cup {key} |->
                    IF k = key THEN [cached_at |-> t] ELSE entries[k]]
  IN IF ok
     THEN [fs EXCEPT ![_get_not_found_cache_path] = Json(With(data, "entries", updated))]
     ELSE fs

(***************************************************************************)
(* Upstream adapters.  The environment supplies the answer of the search   *)
(* request (resp) and of the follow-up broader request (bresp).            *)
(***************************************************************************)
\* Outcomes of client.get + raise_for_status that raise httpx.HTTPError.
HttpFailures == {"timeout", "connect_error", "http_status"}

\* Candidates of a search answer.
cPotato == [uri |-> "c_13551", prefLabel |-> "Potato", altLabel |-> <<>>]
cNoUri == [uri |-> "", prefLabel |-> "Spud", altLabel |-> <<"xyzzy">>]

ResultLists == {<<>>, <<cPotato>>, <<cNoUri>>, <<cNoUri, cPotato>>}

\* A search answer: the request fails, or it ends with status 200 and a body that
\* is not JSON, or with a JSON body holding a list of candidates.
SearchResponses ==
  [kind : HttpFailures \cup {"non_json"}, results : {<<>>}]
    \cup [kind : {"json"}, results : ResultLists]

BroaderLists == {<<>>, <<[uri |-> "c_8079", label |-> "vegetables"]>>}

BroaderResponses ==
  [kind : {"http_status"}, broader : {<<>>}] \cup [kind : {"json"}, broader : BroaderLists]

\* response.json(), None when the body is not JSON.
_parse_json(response) ==
  IF response.kind = "json" THEN [results |-> response.results] ELSE None

\* What an adapter hands back: the concept (or None), query_failed, and the HTTP
\* requests it made, in order.
Outcome(concept, query_failed, http) ==
  [concept |-> concept, query_failed |-> query_failed, http |-> http]

\* The index of the first TRUE of a sequence of booleans (one per search result: does
\* the result match?), 0 when there is none.
FirstIndex(hits) ==
  IF \E i \in 1..Len(hits) : hits[i]
  THEN CHOOSE i \in 1..Len(hits) : hits[i] /\ \A j \in 1..(i - 1) : ~hits[j]
  ELSE 0

\* The broader list of a data answer; [] when the request or the parse fails.
_get_broader(bresp) ==
  IF bresp.kind \in HttpFailures THEN <<>>
  ELSE IF bresp.kind # "json" THEN <<>>
  ELSE SelectSeq(bresp.broader, LAMBDA b : b.uri # "")

_lookup_agrovoc(label, lang, resp, bresp) ==
  IF resp.kind \in HttpFailures THEN Outcome(None, TRUE, <<"search">>)
  ELSE LET data == _parse_json(resp)
       IN IF data = None THEN Outcome(None, FALSE, <<"search">>)
          ELSE IF data.results = <<>> THEN Outcome(None, FALSE, <<"search">>)
          ELSE LET label_lower == Lower(label)
                   Match(r) == Lower(r.prefLabel) = label_lower
                               \/ \E a \in 1..Len(r.altLabel) : Lower(r.altLabel[a]) = label_lower
                   m == FirstIndex([i \in 1..Len(data.results) |-> Match(data.results[i])])
                   best_match == IF m = 0 THEN data.results[1] ELSE data.results[m]
               IN IF best_match.uri = "" THEN Outcome(None, FALSE, <<"search">>)
                  ELSE Outcome([uri |-> best_match.uri,
                                prefLabel |-> best_match.prefLabel,
                                source |-> "agrovoc",
                                broader |-> _get_broader(bresp)],
                               FALSE, <<"search", "data">>)

_lookup_dbpedia(label, lang, resp, bresp) ==
  IF resp.kind \in HttpFailures THEN Outcome(None, TRUE, <<"search">>)
  ELSE LET data == _parse_json(resp)
       IN IF data = None THEN Outcome(None, FALSE, <<"search">>)
          ELSE IF data.results = <<>> THEN Outcome(None, FALSE, <<"search">>)
          ELSE LET label_lower == Lower(label)
                   Match(r) == Lower(r.prefLabel) = label_lower
                   m == FirstIndex([i \in 1..Len(data.results) |-> Match(data.results[i])])
                   best == IF m = 0 THEN data.results[1] ELSE data.results[m]
               IN IF best.uri = "" THEN Outcome(None, FALSE, <<"search">>)
                  ELSE Outcome([uri |-> best.uri,
                                prefLabel |-> best.prefLabel,
                                source |-> "dbpedia",
                                broader |-> _get_broader(bresp),
                                description |-> None],
                               FALSE, <<"search", "data">>)

_lookup_wikidata(label, lang, resp, bresp) ==
  IF resp.kind \in HttpFailures THEN Outcome(None, TRUE, <<"search">>)
  ELSE LET data == _parse_json(resp)
       IN IF data = None THEN Outcome(None, FALSE, <<"search">>)
          ELSE IF data.results = <<>> THEN Outcome(None, FALSE, <<"search">>)
          ELSE LET label_lower == Lower(label)
                   Match(r) == Lower(r.prefLabel) = label_lower
                   m == FirstIndex([i \in 1..Len(data.results) |-> Match(data.results[i])])
                   best == IF m = 0 THEN data.results[1] ELSE data.results[m]
                   qid == best.uri
               IN IF qid = "" THEN Outcome(None, FALSE, <<"search">>)
                  ELSE Outcome([uri |-> "http://www.wikidata.org/entity/" \o qid,
                                prefLabel |-> best.prefLabel,
                                source |-> "wikidata",
                                broader |-> _get_broader(bresp),
                                description |-> None],
                               FALSE, <<"search", "data">>)

\* The dispatch with a fallback adapter for an unknown source.
_upstream_lookup_fallback(label, lang, source, resp, bresp) ==
  IF source = "dbpedia" THEN _lookup_dbpedia(label, lang, resp, bresp)
  ELSE IF source = "wikidata" THEN _lookup_wikidata(label, lang, resp, bresp)
  ELSE _lookup_agrovoc(label, lang, resp, bresp)

_upstream_lookup(label, lang, source, resp, bresp) ==
  IF source = "agrovoc" THEN _lookup_agrovoc(label, lang, resp, bresp)
  ELSE IF source = "dbpedia" THEN _lookup_dbpedia(label, lang, resp, bresp)
  ELSE IF source = "wikidata" THEN _lookup_wikidata(label, lang, resp, bresp)
  ELSE Outcome(None, TRUE, <<>>)

(***************************************************************************)
(* build_hierarchy_paths.  Labels, path segments and paths are strings     *)
(* given as sequences of characters, so that lower(), replace() and        *)
(* "/".join() compute on them; URIs are opaque.                            *)
(***************************************************************************)
MAX_DEPTH == 15


\* str.lower()
LowerChar(c) ==
  IF \E i \in 1..Len(UpperCase) : UpperCase[i] = c
  THEN LowerCase[CHOOSE i \in 1..Len(UpperCase) : UpperCase[i] = c]
  ELSE c
StrLower(str) == [i \in 1..Len(str) |-> LowerChar(str[i])]

\* str.replace(old, new) for one-character old and new
StrReplace(str, old, new) == [i \in 1..Len(str) |-> IF str[i] = old THEN new ELSE str[i]]

\* Faulty variant: hyphens are kept.
_normalize_label_spaces_only(label) == StrReplace(StrLower(label), " ", "_")

\* label.lower().replace(" ", "_").replace("-", "_")
_normalize_label(label) == StrReplace(StrReplace(StrLower(label), " ", "_"), "-", "_")

\* "/".join(segments)
Join(segments) ==
  LET joined[k \in 0..Len(segments)] ==
        IF k = 0 THEN <<>>
        ELSE IF k = 1 THEN segments[1]
        ELSE joined[k - 1] \o <<"/">> \o segments[k]
  IN joined[Len(segments)]

AGROVOC_ROOT_MAPPING ==
  (<<"p", "r", "o", "d", "u", "c", "t", "s">> :> <<"f", "o", "o", "d">>)
  @@ (<<"p", "l", "a", "n", "t", " ", "p", "r", "o", "d", "u", "c", "t", "s">> :> <<"f", "o", "o", "d">>)
  @@ (<<"a", "n", "i", "m", "a", "l", " ", "p", "r", "o", "d", "u", "c", "t", "s">> :> <<"f", "o", "o", "d">>)
  @@ (<<"p", "r", "o", "c", "e", "s", "s", "e", "d", " ", "p", "r", "o", "d", "u", "c", "t", "s">> :> <<"f", "o", "o", "d">>)
  @@ (<<"a", "q", "u", "a", "t", "i", "c", " ", "p", "r", "o", "d", "u", "c", "t", "s">> :> <<"f", "o", "o", "d">>)
  @@ (<<"e", "q", "u", "i", "p", "m", "e", "n", "t">> :> <<"t", "o", "o", "l", "s">>)
  @@ (<<"m", "a", "t", "e", "r", "i", "a", "l", "s">> :> <<"m", "a", "t", "e", "r", "i", "a", "l", "s">>)
  @@ (<<"c", "h", "e", "m", "i", "c", "a", "l", "s">> :> <<"c", "h", "e", "m", "i", "c", "a", "l", "s">>)
  @@ (<<"o", "r", "g", "a", "n", "i", "s", "m", "s">> :> <<"o", "r", "g", "a", "n", "i", "s", "m", "s">>)

\* ROOT_MAPPING.get(source, {})
ROOT_MAPPING(source) == IF source = "agrovoc" THEN AGROVOC_ROOT_MAPPING ELSE <<>>

\* The triple build_hierarchy_paths returns.
HResult(paths, found, uri_map) == [paths |-> paths, found |-> found, uri_map |-> uri_map]

\* dict.update
DictUpdate(old, new) ==
  [k \in DOMAIN old \cup DOMAIN new |-> IF k \in DOMAIN new THEN new[k] ELSE old[k]]

\* Faulty variant: the depth bound let one more frame through.
DepthCapped_late(_depth, _max_depth) == _depth > _max_depth

\* if _depth >= _max_depth
DepthCapped(_depth, _max_depth) == _depth >= _max_depth

\* uri: str = concept.get("uri") or ""
ConceptUri(concept) == Get(concept, "uri", "")

\* Faulty variant: no cycle is ever detected.
CycleDetected_never(uri, _visited_uris) == FALSE

\* if uri and uri in _visited_uris
CycleDetected(uri, _visited_uris) == uri # "" /\ uri \in _visited_uris

\* new_visited = (_visited_uris | {uri}) if uri else _visited_uris
NewVisited(uri, _visited_uris) == IF uri # "" THEN _visited_uris \cup {uri} ELSE _visited_uris

\* pref_label: str = concept.get("prefLabel") or label
PrefLabel(concept, label) ==
  IF Get(concept, "prefLabel", <<>>) # <<>> THEN concept.prefLabel ELSE label

\* broader: list = concept.get("broader", [])
Broader(concept) == Get(concept, "broader", <<>>)

\* The label of a broader entry: the "label" member of a dict, str(item) otherwise.
BroaderLabel(broader_item) ==
  IF "text" \in DOMAIN broader_item THEN broader_item.text
  ELSE Get(broader_item, "label", <<>>)

\* Faulty variant: the synthetic root gets an entry as well.
StartIdx_zero(root_was_mapped) == 0

\* start_idx = 1 if root_was_mapped else 0
StartIdx(root_was_mapped) == IF root_was_mapped THEN 1 ELSE 0

\* if concept_id not in uri_map and uri: uri_map[concept_id] = uri
\* (f @@ g keeps the entries of f and adds those of g under new keys)
SetDefault(uri_map, concept_id, uri) ==
  uri_map @@ (IF uri # "" THEN concept_id :> uri ELSE <<>>)

\* Faulty variant: the keys are built from the leaf end of the path.
UriMap_from_leaf(new_path, new_uris, start_idx) ==
  LET uri_map[i \in start_idx..Len(new_path)] ==
        IF i = start_idx THEN <<>>
        ELSE SetDefault(uri_map[i - 1], Join(SubSeq(new_path, i, Len(new_path))), new_uris[i])
  IN uri_map[Len(new_path)]

\* for i in range(start_idx, len(new_path)): concept_id = "/".join(new_path[: i + 1]);
\* if concept_id not in uri_map and new_uris[i]: uri_map[concept_id] = new_uris[i]
\* uri_map[i] is the dict after the iteration on the i-th segment.
UriMap(new_path, new_uris, start_idx) ==
  LET uri_map[i \in start_idx..Len(new_path)] ==
        IF i = start_idx THEN <<>>
        ELSE SetDefault(uri_map[i - 1], Join(SubSeq(new_path, 1, i)), new_uris[i])
  IN uri_map[Len(new_path)]

\* if root_was_mapped: new_path[0] = root_map[root_label]
RootPath(new_path, pref_label, source) ==
  LET root_label == StrLower(pref_label)
      root_map == ROOT_MAPPING(source)
  IN IF root_label \in DOMAIN root_map
     THEN [new_path EXCEPT ![1] = root_map[root_label]]
     ELSE new_path

\* if not broader: the path of a root concept
RootResult(new_path, new_uris, pref_label, source) ==
  LET root_was_mapped == StrLower(pref_label) \in DOMAIN ROOT_MAPPING(source)
      mapped_path == RootPath(new_path, pref_label, source)
  IN HResult(<<Join(mapped_path)>>, TRUE, UriMap(mapped_path, new_uris, StartIdx(root_was_mapped)))

\* Faulty variant: the partial path counts as found whatever the URI.
PartialResult_always_found(new_path, new_uris, uri) ==
  HResult(<<Join(new_path)>>, TRUE, UriMap(new_path, new_uris, 0))

\* Faulty variant: no partial path is emitted.
PartialResult_none(new_path, new_uris, uri) == HResult(<<>>, FALSE, <<>>)

\* if not all_paths: a partial path from what we have
PartialResult(new_path, new_uris, uri) ==
  HResult(<<Join(new_path)>>, uri # "", UriMap(new_path, new_uris, 0))

\* Faulty variant: the paths of a later broader entry come first.
ExtendPaths_front(all_paths, sub_paths) == sub_paths \o all_paths

\* all_paths.extend(sub_paths)
ExtendPaths(all_paths, sub_paths) == all_paths \o sub_paths

(***************************************************************************)
(* State.                                                                  *)
(***************************************************************************)
VARIABLES
  files,     \* the cache directory: path -> Missing, Corrupt or Json(data)
  now,       \* time.time()
  writable,  \* whether open(path, "w") in the cache directory succeeds
  ops,       \* resolver operations started so far
  pc,        \* position of the running lookup_concept call; "idle" when none runs
  args,      \* its arguments
  cached,    \* its local: what _load_from_cache returned
  up,        \* its locals concept and query_failed, with the kind of the search
             \* answer, its number of candidates and the HTTP requests the adapter made
  result,    \* what it returns
  pending,   \* the payload a write in progress is about to dump
  trace,     \* history: what the running call did so far, in order
  files0,    \* history: the cache directory when the running call started
  prev,      \* history: the call that returned just before, if nothing ran since
  added,     \* history: per key, when _add_to_not_found_cache last completed (-1: never)
  hworld,    \* the taxonomy: lower-cased label -> the record lookup_concept resolves it to
  hsource,   \* the source argument of the running build_hierarchy_paths call
  hstack,    \* its call stack: one frame per activation, the entry call first
  hret,      \* the triple the frame that ended last returned, until its caller took it
  hlog,      \* history: the returns of the frames so far, in order
  hmiss,     \* history: some lookup_concept of the walk returned None
  lcall,     \* the running get_labels or get_labels_batch call; Idle when none runs
  lhist,     \* history: the keys the upstream answered for, and the labels calls made
  stats,     \* what cache_stats returned last
  response,  \* the HTTP response of the request surface to the request at hand
  jcall,     \* a save / load / save round trip of the cache store on one record
  jfile,     \* the text json.dump wrote to the file of that round trip
  procs      \* the concurrent requests: per thread, its position and locals

\* The variables of lookup_concept and those of build_hierarchy_paths.
lvars == <<files, now, writable, ops, pc, args, cached, up, result, pending, trace, files0,
           prev, added>>
hvars == <<hworld, hsource, hstack, hret, hlog, hmiss>>
\* Those of get_labels and cache_stats, of the request surface, of the round trip
\* through a cache file, and of the concurrent requests.
gvars == <<lcall, lhist, stats>>
rvars == <<response>>
jvars == <<jcall, jfile>>
cvars == <<procs>>
xvars == <<gvars, rvars, jvars, cvars>>
vars == <<lvars, hvars, xvars>>

\* No build_hierarchy_paths call runs.
HQuiet ==
  /\ hworld = <<>>
  /\ hsource = ""
  /\ hstack = <<>>
  /\ hret = None
  /\ hlog = <<>>
  /\ hmiss = FALSE

Idle == [at |-> "idle"]

\* No get_labels call, request, round trip or thread runs.
XQuiet ==
  /\ lcall = Idle
  /\ lhist = Idle
  /\ stats = None
  /\ response = None
  /\ jcall = Idle
  /\ jfile = None
  /\ procs = <<>>

NoArgs == [label |-> "", lang |-> "", source |-> ""]
NoUp == [resp |-> "none", candidates |-> 0, concept |-> None, query_failed |-> FALSE,
         http |-> <<>>]
NoPrev == [args |-> NoArgs, upstream |-> 0, query_failed |-> FALSE]

CallKey == ConceptKey(args.label, args.lang, args.source)
CallPath == ConceptPath(args.label, args.lang, args.source)

\* How often event e occurs in sequence tr.
Count(tr, e) == Cardinality({i \in 1..Len(tr) : tr[i] = e})

(***************************************************************************)
(* The cache directory at start: empty, or pre-seeded (by a peer tool that *)
(* shares the cache format) with a file for concept:agrovoc:en:potato      *)
(* and/or a _not_found.json.                                               *)
(***************************************************************************)
SeedKey == ConceptKey("Potato", "en", "agrovoc")
SeedPath == ConceptPath("Potato", "en", "agrovoc")

SeedStamps == {StartTime - CACHE_TTL_SECONDS - 1, StartTime - CACHE_TTL_SECONDS, StartTime}

SeedRecord(uri) ==
  [uri |-> uri, prefLabel |-> "potatoes", source |-> "agrovoc", broader |-> <<>>]

\* Records with and without a _cached_at stamp, and one whose uri is empty.
SeedRecords ==
  {SeedRecord("c_13551"), With(SeedRecord(""), "_cached_at", StartTime)}
    \cup {With(SeedRecord("c_13551"), "_cached_at", s) : s \in SeedStamps}

PositiveSeeds == {Corrupt} \cup {Json(r) : r \in SeedRecords}

NegativeSeed(s) == Json([entries |-> [k \in {SeedKey} |-> [cached_at |-> s]]])

NegativeSeeds == {Corrupt} \cup {NegativeSeed(s) : s \in SeedStamps}

SeedDir(pos, neg) ==
  [p \in Paths |-> IF p = SeedPath THEN pos
                   ELSE IF p = _get_not_found_cache_path THEN neg
                   ELSE Missing]

\* One seeded file, or a positive record together with a fresh negative entry.
SeedDirs ==
  {SeedDir(Missing, Missing)}
    \cup {SeedDir(pos, Missing) : pos \in PositiveSeeds}
    \cup {SeedDir(Missing, neg) : neg \in NegativeSeeds}
    \cup {SeedDir(Json(r), NegativeSeed(StartTime)) :
            r \in {With(SeedRecord(u), "_cached_at", StartTime) : u \in {"", "c_13551"}}}

Init ==
  /\ files \in SeedDirs
  /\ now = StartTime
  /\ writable = TRUE
  /\ ops = 0
  /\ pc = "idle"
  /\ args = NoArgs
  /\ cached = None
  /\ up = NoUp
  /\ result = None
  /\ pending = None
  /\ trace = <<>>
  /\ files0 = files
  /\ prev = NoPrev
  /\ added = [k \in ConceptKeys |-> -1]
  /\ HQuiet
  /\ XQuiet

(***************************************************************************)
(* lookup_concept, statement by statement.                                 *)
(***************************************************************************)
\* Faulty variant: a miss of the positive cache goes straight to the upstream.
AfterLoad_skip_negative(c) ==
  IF c # None /\ Get(c, "uri", "") # "" THEN "return" ELSE "upstream"

\* Faulty variant: any record the positive cache holds is returned, with or without
\* a uri.
AfterLoad_any_record(c) ==
  IF IsRaise(c) THEN "raised"
  ELSE IF c # None THEN "return" ELSE "is_negative"

\* Faulty variant: a cached record without broader concepts is looked up again.
AfterLoad_retry_roots(c) ==
  IF IsRaise(c) THEN "raised"
  ELSE IF c # None /\ Get(c, "uri", "") # "" /\ Get(c, "broader", <<>>) # <<>>
       THEN "return" ELSE "is_negative"

\* if cached is not None and cached.get("uri"): return cached
\* An exception of _load_from_cache is not caught here.
AfterLoad(c) ==
  IF IsRaise(c) THEN "raised"
  ELSE IF c # None /\ Get(c, "uri", "") # "" THEN "return" ELSE "is_negative"

\* Faulty variant: a key that the negative cache does not hold is reported absent
\* without asking the upstream.
AfterNegative_give_up(neg) == "return"

\* Faulty variant: the answer of the negative cache is not heeded.
AfterNegative_ignore(neg) == "upstream"

\* if _is_in_not_found_cache(cache_dir, cache_key): return None
AfterNegative(neg) == IF neg THEN "return" ELSE "upstream"

\* Faulty variant: a failed query is tried again.
AfterUpstream_retry(query_failed) == IF query_failed THEN "upstream" ELSE "store"

\* concept, query_failed = _upstream_lookup(...): one call, then the write.
AfterUpstream(query_failed) == "store"

\* Faulty variant: a failed query is recorded as an absence.
StoreKind_failed_as_absent(concept, query_failed) ==
  IF concept # None THEN "save" ELSE "add_negative"

\* Faulty variant: an absence is not recorded.
StoreKind_no_negative(concept, query_failed) ==
  IF ~query_failed /\ concept # None THEN "save" ELSE "nothing"

\* The write after the upstream call: which helper runs, if any.
StoreKind(concept, query_failed) ==
  IF ~query_failed
  THEN IF concept # None THEN "save" ELSE "add_negative"
  ELSE "nothing"

StoreEffect(fs, key, path, concept, query_failed, t, ok) ==
  IF StoreKind(concept, query_failed) = "save" THEN _save_to_cache(fs, path, concept, t, ok)
  ELSE IF StoreKind(concept, query_failed) = "add_negative"
       THEN _add_to_not_found_cache(fs, key, t, ok)
  ELSE fs

Call(label, lang, source) ==
  /\ pc = "idle"
  /\ ops < MaxOps
  /\ ops' = ops + 1
  /\ args' = [label |-> label, lang |-> lang, source |-> source]
  /\ pc' = "load"
  /\ trace' = <<>>
  /\ files0' = files
  /\ UNCHANGED <<files, now, writable, cached, up, result, prev, added, pending>>
  /\ UNCHANGED <<hvars, xvars>>

LoadStep ==
  /\ pc = "load"
  /\ cached' = _load_from_cache(files, CallPath, now)
  /\ trace' = Append(trace, "load")
  /\ pc' = AfterLoad(cached')
  /\ result' = IF pc' = "return" THEN cached' ELSE None
  /\ UNCHANGED <<files, now, writable, ops, args, up, files0, prev, added, pending>>
  /\ UNCHANGED <<hvars, xvars>>

NegativeStep ==
  /\ pc = "is_negative"
  /\ trace' = Append(trace, "is_negative")
  /\ pc' = AfterNegative(_is_in_not_found_cache(files, CallKey, now))
  /\ result' = None
  /\ UNCHANGED <<files, now, writable, ops, args, cached, up, files0, prev, added, pending>>
  /\ UNCHANGED <<hvars, xvars>>

UpstreamCall(resp, bresp) ==
  /\ pc = "upstream"
  /\ LET o == _upstream_lookup(args.label, args.lang, args.source, resp, bresp)
     IN /\ up' = [resp |-> resp.kind, candidates |-> Len(resp.results),
                  concept |-> o.concept, query_failed |-> o.query_failed, http |-> o.http]
        /\ trace' = trace \o <<"upstream">> \o [i \in 1..Len(o.http) |-> "http:" \o o.http[i]]
  /\ pc' = AfterUpstream(up'.query_failed)
  /\ UNCHANGED <<files, now, writable, ops, args, cached, result, files0, prev, added, pending>>

UpstreamStep(resp, bresp) ==
  /\ UpstreamCall(resp, bresp)
  /\ UNCHANGED <<hvars, xvars>>

StoreStep ==
  /\ pc = "store"
  /\ files' = StoreEffect(files, CallKey, CallPath, up.concept, up.query_failed, now, writable)
  /\ LET kind == StoreKind(up.concept, up.query_failed)
     IN /\ trace' = IF kind = "nothing" THEN trace ELSE Append(trace, kind)
        /\ added' = IF kind = "add_negative" THEN [added EXCEPT ![CallKey] = now] ELSE added
  /\ result' = up.concept
  /\ pc' = "return"
  /\ UNCHANGED <<now, writable, ops, args, cached, up, files0, prev, pending>>
  /\ UNCHANGED <<hvars, xvars>>

ReturnConcept ==
  /\ pc = "return"
  /\ prev' = [args |-> args, upstream |-> Count(trace, "upstream"),
              query_failed |-> up.query_failed]
  /\ pc' = "idle"
  /\ args' = NoArgs
  /\ cached' = None
  /\ up' = NoUp
  /\ result' = None
  /\ pending' = None
  /\ trace' = <<>>
  /\ files0' = files
  /\ UNCHANGED <<files, now, writable, ops, added>>

Return ==
  /\ ReturnConcept
  /\ UNCHANGED <<hvars, xvars>>

(***************************************************************************)
(* A direct call of the cache store's _add_to_not_found_cache, and the     *)
(* passing of time between operations.                                     *)
(***************************************************************************)
AddNegative(key) ==
  /\ pc = "idle"
  /\ ops < MaxOps
  /\ ops' = ops + 1
  /\ files' = _add_to_not_found_cache(files, key, now, writable)
  /\ files0' = files'
  /\ added' = [added EXCEPT ![key] = now]
  /\ prev' = NoPrev
  /\ UNCHANGED <<now, writable, pc, args, cached, up, result, trace, pending>>
  /\ UNCHANGED <<hvars, xvars>>

Advances == ((now - StartTime) \div CACHE_TTL_SECONDS) + ((now - StartTime) % CACHE_TTL_SECONDS)

Advance(d) ==
  /\ pc = "idle"
  /\ Advances < MaxAdvances
  /\ now' = now + d
  /\ prev' = NoPrev
  /\ UNCHANGED <<files, writable, ops, pc, args, cached, up, result, trace, files0, added, pending>>
  /\ UNCHANGED <<hvars, xvars>>

Next ==
  \/ \E label \in Labels, lang \in Langs, source \in Sources : Call(label, lang, source)
  \/ LoadStep
  \/ NegativeStep
  \/ \E resp \in SearchResponses, bresp \in BroaderResponses : UpstreamStep(resp, bresp)
  \/ StoreStep
  \/ Return
  \/ \E key \in ConceptKeys : AddNegative(key)
  \/ \E d \in ClockSteps : Advance(d)

Spec == Init /\ [][Next]_vars

TypeOK ==
  /\ pc \in {"idle", "load", "is_negative", "upstream", "store", "open", "dump", "return",
             "raised", "batch", "returned"}
  /\ now >= StartTime
  /\ DOMAIN files = Paths

(***************************************************************************)
(* SpecIO: the cache write of lookup_concept, system call by system call.  *)
(* _save_to_cache and _add_to_not_found_cache both run mkdir (outside      *)
(* their try block), then open(path, "w"), which truncates the file, then  *)
(* json.dump; any of the three may fail with an OSError.  The directory    *)
(* may hold files of any JSON shape.                                       *)
(***************************************************************************)
\* open(target, "w", encoding="utf-8") succeeded: the file exists and is empty.
OpenEffect(fs, target) == [fs EXCEPT ![target] = Truncated]

\* cache_path.parent.mkdir(parents=True, exist_ok=True) precedes the try block.
AfterMkdir(ok) == IF ok THEN "open" ELSE "raised"

\* The file the write after the upstream call goes to.
WriteTarget(kind, path) == IF kind = "save" THEN path ELSE _get_not_found_cache_path

\* What that write dumps: payload in _save_to_cache, data in _add_to_not_found_cache.
WritePayload(fs, key, path, concept, query_failed, t) ==
  StoreEffect(fs, key, path, concept, query_failed, t, TRUE)[
    WriteTarget(StoreKind(concept, query_failed), path)].data

PositiveSeedsIO ==
  {Missing, Corrupt, JsonNonObject, JsonBadStamp(SeedRecord("c_13551")),
   Json(With(SeedRecord("c_13551"), "_cached_at", StartTime))}

SeedDirsIO ==
  {SeedDir(pos, Missing) : pos \in PositiveSeedsIO}
    \cup {SeedDir(Missing, NegativeSeed(StartTime - CACHE_TTL_SECONDS - 1))}

InitIO ==
  /\ files \in SeedDirsIO
  /\ now = StartTime
  /\ writable = TRUE
  /\ ops = 0
  /\ pc = "idle"
  /\ args = NoArgs
  /\ cached = None
  /\ up = NoUp
  /\ result = None
  /\ pending = None
  /\ trace = <<>>
  /\ files0 = files
  /\ prev = NoPrev
  /\ added = [k \in ConceptKeys |-> -1]
  /\ HQuiet
  /\ XQuiet

\* if not query_failed: ... up to and including the mkdir of the write helper.
MkdirStep(ok) ==
  /\ pc = "store"
  /\ LET kind == StoreKind(up.concept, up.query_failed)
     IN IF kind = "nothing"
        THEN /\ pc' = "return"
             /\ result' = up.concept
             /\ UNCHANGED <<pending, trace>>
        ELSE /\ pc' = AfterMkdir(ok)
             /\ result' = None
             /\ pending' = IF ok
                           THEN WritePayload(files, CallKey, CallPath, up.concept,
                                             up.query_failed, now)
                           ELSE None
             /\ trace' = IF ok THEN trace ELSE Append(trace, "mkdir_failed")
  /\ UNCHANGED <<files, now, writable, ops, args, cached, up, files0, prev, added>>
  /\ UNCHANGED <<hvars, xvars>>

\* with open(cache_path, "w", encoding="utf-8") as f: an OSError is logged, the
\* helper returns and lookup_concept returns concept.
OpenStep(ok) ==
  /\ pc = "open"
  /\ LET target == WriteTarget(StoreKind(up.concept, up.query_failed), CallPath)
     IN files' = IF ok THEN OpenEffect(files, target) ELSE files
  /\ pc' = IF ok THEN "dump" ELSE "return"
  /\ result' = IF ok THEN None ELSE up.concept
  /\ trace' = IF ok THEN trace ELSE Append(trace, "open_failed")
  /\ UNCHANGED <<now, writable, ops, args, cached, up, pending, files0, prev, added>>
  /\ UNCHANGED <<hvars, xvars>>

\* json.dump(payload, f, ...) and the close of the file: an OSError (a full disk)
\* is logged and leaves the file as far as it was written.
DumpStep(ok) ==
  /\ pc = "dump"
  /\ LET kind == StoreKind(up.concept, up.query_failed)
         target == WriteTarget(kind, CallPath)
     IN /\ files' = IF ok THEN [files EXCEPT ![target] = Json(pending)] ELSE files
        /\ trace' = Append(trace, IF ok THEN kind ELSE "dump_failed")
        /\ added' = IF ok /\ kind = "add_negative"
                    THEN [added EXCEPT ![CallKey] = now]
                    ELSE added
  /\ pc' = "return"
  /\ result' = up.concept
  /\ UNCHANGED <<now, writable, ops, args, cached, up, pending, files0, prev>>
  /\ UNCHANGED <<hvars, xvars>>

\* An exception leaves lookup_concept: the caller gets no result.
Propagate ==
  /\ pc = "raised"
  /\ prev' = NoPrev
  /\ pc' = "idle"
  /\ args' = NoArgs
  /\ cached' = None
  /\ up' = NoUp
  /\ result' = None
  /\ pending' = None
  /\ trace' = <<>>
  /\ files0' = files
  /\ UNCHANGED <<files, now, writable, ops, added>>
  /\ UNCHANGED <<hvars, xvars>>

NextIO ==
  \/ \E label \in Labels, lang \in Langs, source \in Sources : Call(label, lang, source)
  \/ LoadStep
  \/ NegativeStep
  \/ \E resp \in SearchResponses, bresp \in BroaderResponses : UpstreamStep(resp, bresp)
  \/ \E ok \in BOOLEAN : MkdirStep(ok)
  \/ \E ok \in BOOLEAN : OpenStep(ok)
  \/ \E ok \in BOOLEAN : DumpStep(ok)
  \/ Return
  \/ Propagate

SpecIO == InitIO /\ [][NextIO]_vars

(***************************************************************************)
(* SpecH: build_hierarchy_paths, one activation per frame of hstack.       *)
(* lookup_concept is taken by its answer: the record the taxonomy holds    *)
(* for the lower-cased label (the cache key lower-cases it), or None.      *)
(***************************************************************************)
\* String literals.
str_alpha == <<"a", "l", "p", "h", "a">>
str_beta == <<"b", "e", "t", "a">>
str_food == <<"f", "o", "o", "d">>
str_nutrition == <<"n", "u", "t", "r", "i", "t", "i", "o", "n">>
str_potatoes == <<"p", "o", "t", "a", "t", "o", "e", "s">>
str_Potatoes_ == <<"P", "o", "t", "a", "t", "o", "e", "s">>
str_Vegetables == <<"V", "e", "g", "e", "t", "a", "b", "l", "e", "s">>
str_Plant_products == <<"P", "l", "a", "n", "t", " ", "p", "r", "o", "d", "u", "c", "t", "s">>
str_Sweet_potato == <<"S", "w", "e", "e", "t", "-", "p", "o", "t", "a", "t", "o">>
str_sub_tier_ == <<"s", "u", "b", "_", "t", "i", "e", "r", "_">>
str_xyzzy == <<"x", "y", "z", "z", "y">>
str_Sub_Tier_ == <<"S", "u", "b", "-", "T", "i", "e", "r", " ">>

Concept(uri, prefLabel, broader) ==
  [uri |-> uri, prefLabel |-> prefLabel, source |-> "agrovoc", broader |-> broader]

\* A broader entry as the adapters write it, and one stored as a plain string.
Item(uri, label) == [uri |-> uri, label |-> label]
TextItem(text) == [text |-> text]

\* str(k) for 0 <= k < 100
Digits(k) ==
  IF k < 10 THEN <<Digit[k + 1]>> ELSE <<Digit[(k \div 10) + 1], Digit[(k % 10) + 1]>>

\* A linear taxonomy c0 -> c1 -> ... -> cn, cn the root.
ChainLabel(k) == str_Sub_Tier_ \o Digits(k)
ChainUri(k) == "http://x/tier/" \o ToString(k)
ChainWorld(n) ==
  [l \in {StrLower(ChainLabel(k)) : k \in 0..n} |->
     LET k == CHOOSE k \in 0..n : StrLower(ChainLabel(k)) = l
     IN Concept(ChainUri(k), ChainLabel(k),
                IF k = n THEN <<>> ELSE <<Item(ChainUri(k + 1), ChainLabel(k + 1))>>)]

ChainLengths == {0, 1, 2} \cup ((MAX_DEPTH - 1)..MaxChain)

\* alpha -> beta -> alpha, with a root beside each link of the cycle.
CycleWorld ==
  (str_alpha :> Concept("http://x/a", str_alpha,
                        <<Item("http://x/b", str_beta), Item("http://x/food", str_food)>>))
  @@ (str_beta :> Concept("http://x/b", str_beta,
                          <<Item("http://x/a", str_alpha), Item("http://x/n", str_nutrition)>>))
  @@ (str_food :> Concept("http://x/food", str_food, <<>>))
  @@ (str_nutrition :> Concept("http://x/n", str_nutrition, <<>>))

\* Vegetables below the root "Plant products", which the AGROVOC table maps to food.
RootMapWorld ==
  (StrLower(str_Vegetables) :>
     Concept("http://x/vegetables", str_Vegetables,
             <<Item("http://x/plant_products", str_Plant_products)>>))
  @@ (StrLower(str_Plant_products) :> Concept("http://x/plant_products", str_Plant_products, <<>>))

\* potatoes below three roots.
MultiWorld ==
  (str_potatoes :>
     Concept("http://x/leaf", str_potatoes,
             <<Item("http://x/food", str_food), Item("http://x/n", str_nutrition),
               Item("http://x/plant_products", str_Plant_products)>>))
  @@ (str_food :> Concept("http://x/food", str_food, <<>>))
  @@ (str_nutrition :> Concept("http://x/n", str_nutrition, <<>>))
  @@ (StrLower(str_Plant_products) :> Concept("http://x/plant_products", str_Plant_products, <<>>))

\* Sweet-potato with a broader entry without label, one stored as a plain string that
\* resolves to nothing, and one to a record without prefLabel.
MiscWorld ==
  (StrLower(str_Sweet_potato) :>
     Concept("http://x/sp", str_Sweet_potato,
             <<Item("http://x/nolabel", <<>>), TextItem(str_xyzzy),
               Item("http://x/vegetables", str_Vegetables)>>))
  @@ (StrLower(str_Vegetables) :>
        Concept("http://x/vegetables", <<>>,
                <<Item("http://x/plant_products", str_Plant_products)>>))
  @@ (StrLower(str_Plant_products) :> Concept("http://x/plant_products", str_Plant_products, <<>>))

Walk(world, source, label) == [world |-> world, source |-> source, label |-> label]

Walks ==
  {Walk(ChainWorld(n), "agrovoc", ChainLabel(0)) : n \in ChainLengths}
    \cup {Walk(CycleWorld, "agrovoc", str_alpha)}
    \cup {Walk(RootMapWorld, src, str_Vegetables) : src \in {"agrovoc", "dbpedia"}}
    \cup {Walk(MultiWorld, src, str_Potatoes_) : src \in {"agrovoc", "wikidata"}}
    \cup {Walk(MiscWorld, "agrovoc", str_Sweet_potato)}

\* concept = lookup_concept(label, lang, source, cache_dir), when nothing fails
Resolve(world, label) ==
  IF StrLower(label) \in DOMAIN world THEN world[StrLower(label)] ELSE None

\* An activation of build_hierarchy_paths: its arguments, its position, and its locals
\* concept, the index of the broader entry at hand, all_paths and all_uri_maps.
Frame(label, _current_path, _current_uris, _visited_uris, _depth) ==
  [label |-> label, _current_path |-> _current_path, _current_uris |-> _current_uris,
   _visited_uris |-> _visited_uris, _depth |-> _depth,
   at |-> "enter", concept |-> None, i |-> 0, all_paths |-> <<>>, all_uri_maps |-> <<>>]

Top == hstack[Len(hstack)]

\* Faulty variant: the label of the frame goes to the end of the path.
NewPath_append(f) == f._current_path \o <<_normalize_label(PrefLabel(f.concept, f.label))>>

\* new_path = [normalized] + _current_path and new_uris = [uri] + _current_uris
NewPath(f) == <<_normalize_label(PrefLabel(f.concept, f.label))>> \o f._current_path
NewUris(f) == <<ConceptUri(f.concept)>> \o f._current_uris

InitH ==
  /\ files = SeedDir(Missing, Missing)
  /\ now = StartTime
  /\ writable = TRUE
  /\ ops = 0
  /\ pc = "idle"
  /\ args = NoArgs
  /\ cached = None
  /\ up = NoUp
  /\ result = None
  /\ pending = None
  /\ trace = <<>>
  /\ files0 = files
  /\ prev = NoPrev
  /\ added = [k \in ConceptKeys |-> -1]
  /\ \E w \in Walks :
       /\ hworld = w.world
       /\ hsource = w.source
       /\ hstack = <<Frame(w.label, <<>>, <<>>, {}, 0)>>
  /\ hret = None
  /\ hlog = <<>>
  /\ hmiss = FALSE
  /\ XQuiet

\* return result: the frame ends and its caller, if any, goes on.
HReturn(res, why) ==
  /\ hstack' = SubSeq(hstack, 1, Len(hstack) - 1)
  /\ hret' = res
  /\ hlog' = Append(hlog, [why |-> why, frame |-> Top, result |-> res])

\* if _depth >= _max_depth: return [], False, {}
HEnter ==
  /\ hstack # <<>>
  /\ Top.at = "enter"
  /\ IF DepthCapped(Top._depth, MAX_DEPTH)
     THEN HReturn(HResult(<<>>, FALSE, <<>>), "depth_cap")
     ELSE /\ hstack' = [hstack EXCEPT ![Len(hstack)].at = "lookup"]
          /\ UNCHANGED <<hret, hlog>>
  /\ UNCHANGED <<hworld, hsource, hmiss>>
  /\ UNCHANGED <<lvars, xvars>>

\* concept = lookup_concept(...); if concept is None: return [], False, {}
\* The lookup resolves the label (ok) or comes back with None.
HLookup(ok) ==
  /\ hstack # <<>>
  /\ Top.at = "lookup"
  /\ LET concept == IF ok THEN Resolve(hworld, Top.label) ELSE None
     IN /\ hmiss' = (hmiss \/ concept = None)
        /\ IF concept = None
           THEN HReturn(HResult(<<>>, FALSE, <<>>), "absent")
           ELSE /\ hstack' = [hstack EXCEPT ![Len(hstack)].at = "visit",
                                            ![Len(hstack)].concept = concept]
                /\ UNCHANGED <<hret, hlog>>
  /\ UNCHANGED <<hworld, hsource>>
  /\ UNCHANGED <<lvars, xvars>>

\* The cycle check, and the path of a root.
HVisit ==
  /\ hstack # <<>>
  /\ Top.at = "visit"
  /\ LET uri == ConceptUri(Top.concept)
     IN IF CycleDetected(uri, Top._visited_uris)
        THEN HReturn(HResult(<<>>, TRUE, <<>>), "cycle")
        ELSE IF Broader(Top.concept) = <<>>
        THEN HReturn(RootResult(NewPath(Top), NewUris(Top), PrefLabel(Top.concept, Top.label),
                                hsource),
                     "root")
        ELSE /\ hstack' = [hstack EXCEPT ![Len(hstack)].at = "loop", ![Len(hstack)].i = 1]
             /\ UNCHANGED <<hret, hlog>>
  /\ UNCHANGED <<hworld, hsource, hmiss>>
  /\ UNCHANGED <<lvars, xvars>>

\* for broader_item in broader: skip an entry without label, recurse into the others;
\* after the last one, return the partial path or what the entries gave.
HLoop ==
  /\ hstack # <<>>
  /\ Top.at = "loop"
  /\ LET uri == ConceptUri(Top.concept)
         broader == Broader(Top.concept)
     IN IF Top.i > Len(broader)
        THEN IF Top.all_paths = <<>>
             THEN HReturn(PartialResult(NewPath(Top), NewUris(Top), uri), "partial")
             ELSE HReturn(HResult(Top.all_paths, TRUE, Top.all_uri_maps), "all")
        ELSE IF BroaderLabel(broader[Top.i]) = <<>>
        THEN /\ hstack' = [hstack EXCEPT ![Len(hstack)].i = Top.i + 1]
             /\ UNCHANGED <<hret, hlog>>
        ELSE /\ hstack' = Append([hstack EXCEPT ![Len(hstack)].at = "wait"],
                                 Frame(BroaderLabel(broader[Top.i]), NewPath(Top), NewUris(Top),
                                       NewVisited(uri, Top._visited_uris), Top._depth + 1))
             /\ UNCHANGED <<hret, hlog>>
  /\ UNCHANGED <<hworld, hsource, hmiss>>
  /\ UNCHANGED <<lvars, xvars>>

\* if sub_found: all_paths.extend(sub_paths); all_uri_maps.update(sub_uri_map)
HCollect ==
  /\ hstack # <<>>
  /\ Top.at = "wait"
  /\ hret # None
  /\ hstack' = [hstack EXCEPT
                  ![Len(hstack)].at = "loop",
                  ![Len(hstack)].i = Top.i + 1,
                  ![Len(hstack)].all_paths =
                    IF hret.found THEN ExtendPaths(Top.all_paths, hret.paths) ELSE Top.all_paths,
                  ![Len(hstack)].all_uri_maps =
                    IF hret.found THEN DictUpdate(Top.all_uri_maps, hret.uri_map)
                    ELSE Top.all_uri_maps]
  /\ hret' = None
  /\ UNCHANGED <<hworld, hsource, hlog, hmiss>>
  /\ UNCHANGED <<lvars, xvars>>

NextH ==
  \/ HEnter
  \/ \E ok \in BOOLEAN : HLookup(ok)
  \/ HVisit
  \/ HLoop
  \/ HCollect

\* The walk is sequential code that runs to its end: it does not stop while a step
\* is possible.
SpecH == InitH /\ [][NextH]_vars /\ WF_vars(NextH)

\* The entry call has returned.
HDone == hstack = <<>> /\ hret # None

(***************************************************************************)
(* SpecL: get_labels and get_labels_batch, called one after the other.     *)
(* SpecS: cache_stats between lookup_concept and get_labels calls on a     *)
(* directory that starts empty.  The environment supplies the answer of    *)
(* the labels request of each URI.                                         *)
(***************************************************************************)
\* The prefLabel / rdfs:label entries, or the language -> label members, of an answer.
LabelEntry(lang, value) == [lang |-> lang, value |-> value]

LabelLists ==
  {<<>>, <<LabelEntry("en", "potatoes"), LabelEntry("nb", "poteter"), LabelEntry("de", "")>>}

\* The answer of the labels request: it fails, or its body is not JSON, or it holds
\* label entries.
LabelResponses ==
  [kind : {"http_status", "non_json"}, labels : {<<>>}]
    \cup [kind : {"json"}, labels : LabelLists]

\* The languages argument: a list of language codes.
LanguageLists == {<<>>, <<"en">>, <<"de", "en">>}

\* The sources labels are asked of in a run of get_labels calls alone.
LabelSources == {"agrovoc", "wikidata", "gnd"}

\* lang in languages
InList(lang, languages) == \E i \in 1..Len(languages) : languages[i] = lang

\* for entry in entries: if lang in languages and value: labels[lang] = value
CollectLabels(entries, languages) ==
  LET kept == {i \in 1..Len(entries) :
                 InList(entries[i].lang, languages) /\ entries[i].value # ""}
  IN [lang \in {entries[i].lang : i \in kept} |->
        entries[CHOOSE i \in kept : entries[i].lang = lang
                                    /\ \A j \in kept : entries[j].lang = lang => j <= i].value]

_get_agrovoc_labels(uri, languages, lresp) ==
  IF lresp.kind \in HttpFailures THEN <<>>
  ELSE IF lresp.kind # "json" THEN <<>>
  ELSE CollectLabels(lresp.labels, languages)

_get_dbpedia_labels(uri, languages, lresp) ==
  IF lresp.kind \in HttpFailures THEN <<>>
  ELSE IF lresp.kind # "json" THEN <<>>
  ELSE CollectLabels(lresp.labels, languages)

\* qid = uri.rstrip("/").split("/")[-1]
Qid(uri) ==
  CASE uri = "http://www.wikidata.org/entity/Q10998" -> "Q10998"
    [] uri = "http://aims.fao.org/aos/agrovoc/c_13551" -> "c_13551"
    [] OTHER -> uri

\* The body is an object language -> label; no request is made for a URI that does not
\* end in a Q-id, and an empty label is not dropped.
_get_wikidata_labels(uri, languages, lresp) ==
  IF SubSeq(Qid(uri), 1, 1) # "Q" THEN <<>>
  ELSE IF lresp.kind \in HttpFailures THEN <<>>
  ELSE IF lresp.kind # "json" THEN <<>>
  ELSE LET data == [lang \in {lresp.labels[i].lang : i \in 1..Len(lresp.labels)} |->
                      lresp.labels[CHOOSE i \in 1..Len(lresp.labels) :
                                     lresp.labels[i].lang = lang].value]
       IN [lang \in {l \in DOMAIN data : InList(l, languages)} |-> data[lang]]

_upstream_get_labels(uri, source, languages, lresp) ==
  IF source = "agrovoc" THEN _get_agrovoc_labels(uri, languages, lresp)
  ELSE IF source = "dbpedia" THEN _get_dbpedia_labels(uri, languages, lresp)
  ELSE IF source = "wikidata" THEN _get_wikidata_labels(uri, languages, lresp)
  ELSE <<>>

\* Faulty variant: the mapping is returned as it is.
SelectLanguages_all(labels, languages) == labels

\* {lang: labels[lang] for lang in languages if lang in labels}
SelectLanguages(labels, languages) ==
  [lang \in {l \in DOMAIN labels : InList(l, languages)} |-> labels[lang]]

\* Faulty variant: an empty mapping is cached as well.
ShouldCache_always(all_labels) == TRUE

\* if all_labels:
ShouldCache(all_labels) == DOMAIN all_labels # {}

\* Faulty variant: the cache is not consulted.
LabelsCached_never(fs, cache_path, t) == None

\* cached = _load_from_cache(cache_path)
LabelsCached(fs, cache_path, t) == _load_from_cache(fs, cache_path, t)

\* What a get_labels call does: the mapping it returns, the directory it leaves, whether
\* it called the upstream and the mapping the upstream gave.
LabelsOutcome(labels, fs, upstream, all_labels) ==
  [labels |-> labels, files |-> fs, upstream |-> upstream, all_labels |-> all_labels]

get_labels(fs, uri, languages, source, lresp, t, ok) ==
  IF uri = "" \/ languages = <<>> THEN LabelsOutcome(<<>>, fs, FALSE, <<>>)
  ELSE LET cache_path == LabelsPath(uri, source)
           cached_record == LabelsCached(fs, cache_path, t)
       IN IF cached_record # None
          THEN LabelsOutcome(SelectLanguages(Get(cached_record, "labels", <<>>), languages), fs,
                             FALSE, <<>>)
          ELSE LET all_labels == _upstream_get_labels(uri, source, languages, lresp)
               IN LabelsOutcome(
                    SelectLanguages(all_labels, languages),
                    IF ShouldCache(all_labels)
                    THEN _save_to_cache(fs, cache_path,
                                        [uri |-> uri, source |-> source, labels |-> all_labels],
                                        t, ok)
                    ELSE fs,
                    TRUE, all_labels)

\* {uri: get_labels(uri, languages, source, cache_dir) for uri in uris}, with the URIs
\* the upstream was called for, in order, and those it gave labels for; answers gives
\* the answer of the labels request of each URI.
get_labels_batch(fs, uris, languages, source, answers, t, ok) ==
  LET done[i \in 0..Len(uris)] ==
        IF i = 0 THEN [labels |-> <<>>, files |-> fs, calls |-> <<>>]
        ELSE LET before == done[i - 1]
                 r == get_labels(before.files, uris[i], languages, source, answers[uris[i]],
                                 t, ok)
             IN [labels |-> (uris[i] :> r.labels) @@ before.labels,
                 files |-> r.files,
                 calls |-> IF r.upstream THEN Append(before.calls, uris[i]) ELSE before.calls]
  IN done[Len(uris)]

\* stem.startswith(prefix)
StartsWith(str, prefix) == Len(str) >= Len(prefix) /\ SubSeq(str, 1, Len(prefix)) = prefix

\* Faulty variant: the not-found file counts as one.
cache_stats_per_file(fs) ==
  LET json_files == {p \in DOMAIN fs : fs[p].kind # "missing"} \ {_get_not_found_cache_path}
  IN [concept_count |-> Cardinality({p \in json_files : StartsWith(p, "concept_")}),
      labels_count |-> Cardinality({p \in json_files : StartsWith(p, "labels_")}),
      not_found_count |-> IF fs[_get_not_found_cache_path].kind = "json" THEN 1 ELSE 0]

\* The files of cache_dir.glob("*.json") are the paths that hold a file; without a
\* directory there is none.  A _not_found.json that does not parse counts as empty.
cache_stats(fs) ==
  LET json_files == {p \in DOMAIN fs : fs[p].kind # "missing"} \ {_get_not_found_cache_path}
      not_found == fs[_get_not_found_cache_path]
  IN [concept_count |-> Cardinality({p \in json_files : StartsWith(p, "concept_")}),
      labels_count |-> Cardinality({p \in json_files : StartsWith(p, "labels_")}),
      not_found_count |-> IF not_found.kind = "json"
                          THEN Cardinality(DOMAIN Get(not_found.data, "entries", <<>>))
                          ELSE 0]

\* A labels record a peer tool left for the AGROVOC URI: one with more languages than
\* any request asks for, and one without a labels member.
LabelsSeedPath == LabelsPath(LabelUris[1], "agrovoc")
LabelsSeeds ==
  {Json([uri |-> LabelUris[1], source |-> "agrovoc", _cached_at |-> StartTime,
         labels |-> [lang \in {"en", "fr"} |-> IF lang = "en" THEN "potatoes"
                                               ELSE "pommes de terre"]]),
   Json([uri |-> LabelUris[1], source |-> "agrovoc", _cached_at |-> StartTime])}

NoHistory == [empty |-> TRUE, concept |-> {}, labels |-> {}, absent |-> {}]

InitL ==
  /\ \/ files = [p \in Paths |-> Missing]
     \/ \E seed \in LabelsSeeds :
          files = [p \in Paths |-> IF p = LabelsSeedPath THEN seed ELSE Missing]
  /\ now = StartTime
  /\ writable = TRUE
  /\ ops = 0
  /\ pc = "idle"
  /\ args = NoArgs
  /\ cached = None
  /\ up = NoUp
  /\ result = None
  /\ pending = None
  /\ trace = <<>>
  /\ files0 = files
  /\ prev = NoPrev
  /\ added = [k \in ConceptKeys |-> -1]
  /\ HQuiet
  /\ lcall = Idle
  /\ lhist = [NoHistory EXCEPT !.empty = (files = [p \in Paths |-> Missing])]
  /\ stats = None
  /\ response = None
  /\ jcall = Idle
  /\ jfile = None
  /\ procs = <<>>

\* The upstream call of a lookup_concept, with what it answered noted per key.
UpstreamStepL(resp, bresp) ==
  /\ UpstreamCall(resp, bresp)
  /\ lhist' = IF up'.query_failed THEN lhist
              ELSE IF up'.concept # None
              THEN [lhist EXCEPT !.concept = @ \cup {CallKey}]
              ELSE [lhist EXCEPT !.absent = @ \cup {CallKey}]
  /\ stats' = None
  /\ UNCHANGED lcall
  /\ UNCHANGED <<hvars, rvars, jvars, cvars>>

\* One get_labels call.
GetLabels(uri, languages, source, lresp) ==
  /\ pc = "idle"
  /\ ops < MaxOps
  /\ ops' = ops + 1
  /\ LET r == get_labels(files, uri, languages, source, lresp, now, writable)
     IN /\ files' = r.files
        /\ lcall' = [at |-> "get_labels", uris |-> <<uri>>, languages |-> languages,
                     source |-> source, answers |-> (uri :> lresp), files0 |-> files,
                     i |-> 1, labels |-> (uri :> r.labels),
                     calls |-> IF r.upstream THEN <<uri>> ELSE <<>>]
        /\ lhist' = IF DOMAIN r.all_labels # {}
                    THEN [lhist EXCEPT !.labels = @ \cup {LabelsKey(uri, source)}]
                    ELSE lhist
  /\ pc' = "returned"
  /\ files0' = files'
  /\ prev' = NoPrev
  /\ stats' = None
  /\ UNCHANGED <<now, writable, args, cached, up, result, pending, trace, added>>
  /\ UNCHANGED <<hvars, rvars, jvars, cvars>>

\* The caller has the mapping.
LabelsReturn ==
  /\ pc = "returned"
  /\ pc' = "idle"
  /\ lcall' = Idle
  /\ UNCHANGED <<files, now, writable, ops, args, cached, up, result, pending, trace, files0,
                 prev, added>>
  /\ UNCHANGED <<lhist, stats>>
  /\ UNCHANGED <<hvars, rvars, jvars, cvars>>

\* The lists of URIs of a batch.
UriLists ==
  {<<>>, <<LabelUris[1]>>, <<LabelUris[1], LabelUris[2]>>, <<LabelUris[2], LabelUris[1]>>,
   <<LabelUris[1], LabelUris[1]>>}

\* A get_labels_batch call starts; for an empty list it returns {} at once.
BatchCall(uris, languages, source) ==
  /\ pc = "idle"
  /\ ops < MaxOps
  /\ ops' = ops + 1
  /\ pc' = IF uris = <<>> THEN "returned" ELSE "batch"
  /\ lcall' = [at |-> "get_labels_batch", uris |-> uris, languages |-> languages,
               source |-> source, answers |-> <<>>, files0 |-> files, i |-> 0,
               labels |-> <<>>, calls |-> <<>>]
  /\ files0' = files
  /\ prev' = NoPrev
  /\ stats' = None
  /\ UNCHANGED <<files, now, writable, args, cached, up, result, pending, trace, added>>
  /\ UNCHANGED lhist
  /\ UNCHANGED <<hvars, rvars, jvars, cvars>>

\* The get_labels call of the next URI of the list; the upstream has one answer per
\* URI.  After the last URI the batch returns.
BatchStep(lresp) ==
  /\ pc = "batch"
  /\ LET uri == lcall.uris[lcall.i + 1]
         r == get_labels(files, uri, lcall.languages, lcall.source, lresp, now, writable)
     IN /\ uri \in DOMAIN lcall.answers => lresp = lcall.answers[uri]
        /\ files' = r.files
        /\ lcall' = [lcall EXCEPT
                       !.i = @ + 1,
                       !.answers = (uri :> lresp) @@ @,
                       !.labels = (uri :> r.labels) @@ @,
                       !.calls = IF r.upstream THEN Append(@, uri) ELSE @]
        /\ lhist' = IF DOMAIN r.all_labels # {}
                    THEN [lhist EXCEPT !.labels = @ \cup {LabelsKey(uri, lcall.source)}]
                    ELSE lhist
  /\ pc' = IF lcall.i + 1 = Len(lcall.uris) THEN "returned" ELSE "batch"
  /\ files0' = files'
  /\ UNCHANGED <<now, writable, ops, args, cached, up, result, pending, trace, prev, added>>
  /\ UNCHANGED stats
  /\ UNCHANGED <<hvars, rvars, jvars, cvars>>

\* One cache_stats call.
CacheStats ==
  /\ pc = "idle"
  /\ stats = None
  /\ stats' = cache_stats(files)
  /\ UNCHANGED <<lcall, lhist>>
  /\ UNCHANGED <<lvars, hvars, rvars, jvars, cvars>>

NextL ==
  \/ \E uri \in UriSet \cup {""}, languages \in LanguageLists, source \in LabelSources,
        lresp \in LabelResponses : GetLabels(uri, languages, source, lresp)
  \/ \E uris \in UriLists, languages \in LanguageLists, source \in LabelSources :
        BatchCall(uris, languages, source)
  \/ \E lresp \in LabelResponses : BatchStep(lresp)
  \/ LabelsReturn
  \/ \E d \in ClockSteps : Advance(d)

SpecL == InitL /\ [][NextL]_vars

InitS ==
  /\ InitL
  /\ files = [p \in Paths |-> Missing]

\* The get_labels calls ask for English labels.
NextS ==
  \/ \E label \in Labels, lang \in Langs, source \in Sources : Call(label, lang, source)
  \/ LoadStep
  \/ NegativeStep
  \/ \E resp \in SearchResponses, bresp \in BroaderResponses : UpstreamStepL(resp, bresp)
  \/ StoreStep
  \/ Return
  \/ \E uri \in UriSet, source \in Sources, lresp \in LabelResponses :
        GetLabels(uri, <<"en">>, source, lresp)
  \/ LabelsReturn
  \/ CacheStats
  \/ \E d \in ClockSteps : Advance(d)

SpecS == InitS /\ [][NextS]_vars

(***************************************************************************)
(* SpecR: the request surface (src/src/tingbok/routers/skos.py).  The      *)
(* lookup and hierarchy endpoints run the resolver in a worker thread and  *)
(* turn what it returns into an HTTP response.                             *)
(***************************************************************************)
\* How the resolver came to its result, from what the call did.
ResolverOutcome(tr, query_failed, concept) ==
  IF Count(tr, "upstream") = 0
  THEN IF Count(tr, "is_negative") = 0 THEN "positive_hit" ELSE "negative_hit"
  ELSE IF query_failed THEN "transient_failure"
  ELSE IF concept = None THEN "absent"
  ELSE "resolved"

\* broader = [... for item in broader_raw if item["uri"]]
BroaderRefs(broader_raw) == SelectSeq(broader_raw, LAMBDA item : item.uri # "")

\* ConceptResponse(uri=concept.get("uri"), prefLabel=concept.get("prefLabel", label), ...)
ConceptResponse(concept, label, source) ==
  [uri |-> Get(concept, "uri", None),
   prefLabel |-> Get(concept, "prefLabel", label),
   broader |-> BroaderRefs(Get(concept, "broader", <<>>)),
   source |-> Get(concept, "source", source),
   description |-> Get(concept, "description", None)]

\* Faulty variant: an absent concept is answered with an empty body.
LookupResponse_always_ok(concept, label, source) ==
  [status |-> 200,
   body |-> IF concept = None THEN None ELSE ConceptResponse(concept, label, source)]

\* if concept is None: raise HTTPException(status_code=404, ...)
LookupResponse(concept, label, source) ==
  IF concept = None THEN [status |-> 404, body |-> None]
  ELSE [status |-> 200, body |-> ConceptResponse(concept, label, source)]

\* HierarchyResponse(label=label, paths=paths, found=found, source=source, uri_map=uri_map)
HierarchyResponse(label, triple, source) ==
  [status |-> 200,
   body |-> [label |-> label, paths |-> triple.paths, found |-> triple.found,
             source |-> source, uri_map |-> triple.uri_map]]

InitR == Init \/ InitH

\* lookup: lookup_concept has returned and the endpoint answers.
LookupRespond ==
  /\ ReturnConcept
  /\ response' = [endpoint |-> "lookup", returned |-> result,
                  outcome |-> ResolverOutcome(trace, up.query_failed, result),
                  answer |-> LookupResponse(result, args.label, args.source)]
  /\ UNCHANGED <<hvars, gvars, jvars, cvars>>

\* hierarchy: build_hierarchy_paths has returned and the endpoint answers.
HierarchyRespond ==
  /\ HDone
  /\ response = None
  /\ response' = [endpoint |-> "hierarchy", returned |-> hret,
                  outcome |-> hlog[Len(hlog)].why,
                  answer |-> HierarchyResponse(hlog[Len(hlog)].frame.label, hret, hsource)]
  /\ UNCHANGED <<lvars, hvars, gvars, jvars, cvars>>

\* A run serves lookup requests, or one hierarchy request.
NextR ==
  \/ /\ HQuiet
     /\ \E label \in Labels, lang \in Langs, source \in Sources : Call(label, lang, source)
  \/ LoadStep
  \/ NegativeStep
  \/ \E resp \in SearchResponses, bresp \in BroaderResponses : UpstreamStep(resp, bresp)
  \/ StoreStep
  \/ LookupRespond
  \/ /\ HQuiet
     /\ \E d \in ClockSteps : Advance(d)
  \/ HEnter
  \/ \E ok \in BOOLEAN : HLookup(ok)
  \/ HVisit
  \/ HLoop
  \/ HCollect
  \/ HierarchyRespond

SpecR == InitR /\ [][NextR]_vars

(***************************************************************************)
(* SpecJ: one record saved, loaded and saved again through a cache file.   *)
(* Python values carry their type; a dict is the list of its items in      *)
(* insertion order; the file holds the JSON text json.dump writes, as the  *)
(* tree of its tokens.                                                     *)
(***************************************************************************)
PyNone == [py |-> "None"]
PyStr(v) == [py |-> "str", v |-> v]
PyFloat(v) == [py |-> "float", v |-> v]
PyList(items) == [py |-> "list", items |-> items]
PyDict(items) == [py |-> "dict", items |-> items]

\* key in d, d.get(key, default), and d as a mapping (dicts compare without order)
DictHas(d, key) == \E i \in 1..Len(d.items) : d.items[i][1] = key
DictGet(d, key, default) ==
  IF DictHas(d, key)
  THEN d.items[CHOOSE i \in 1..Len(d.items) : d.items[i][1] = key][2]
  ELSE default
AsMap(d) == [key \in {d.items[i][1] : i \in 1..Len(d.items)} |-> DictGet(d, key, PyNone)]

\* d[key] = value: an existing key keeps its place, a new one goes last.
DictSet(d, key, value) ==
  IF DictHas(d, key)
  THEN PyDict([i \in 1..Len(d.items) |->
                 IF d.items[i][1] = key THEN <<key, value>> ELSE d.items[i]])
  ELSE PyDict(Append(d.items, <<key, value>>))

\* json.dump(obj, f, ensure_ascii=False, indent=2): None -> null, str -> string,
\* float -> number, list -> array, dict -> object with its members in order.
json_dump(obj) ==
  LET RECURSIVE encode(_)
      encode(o) ==
        CASE o.py = "None" -> [json |-> "null"]
          [] o.py = "str" -> [json |-> "string", chars |-> o.v]
          [] o.py = "float" -> [json |-> "number", digits |-> o.v]
          [] o.py = "list" ->
               [json |-> "array",
                elements |-> [i \in 1..Len(o.items) |-> encode(o.items[i])]]
          [] o.py = "dict" ->
               [json |-> "object",
                members |-> [i \in 1..Len(o.items) |->
                               <<o.items[i][1], encode(o.items[i][2])>>]]
  IN encode(obj)

\* json.load(f): null -> None, string -> str, number -> float, array -> list, object
\* -> dict; of two members with one name the later value is kept.
json_load(text) ==
  LET RECURSIVE decode(_)
      decode(j) ==
        CASE j.json = "null" -> PyNone
          [] j.json = "string" -> PyStr(j.chars)
          [] j.json = "number" -> PyFloat(j.digits)
          [] j.json = "array" ->
               PyList([i \in 1..Len(j.elements) |-> decode(j.elements[i])])
          [] j.json = "object" ->
               LET first == SelectSeq([i \in 1..Len(j.members) |-> i],
                                      LAMBDA i : \A k \in 1..(i - 1) :
                                                   j.members[k][1] # j.members[i][1])
                   last(i) == CHOOSE k \in 1..Len(j.members) :
                                /\ j.members[k][1] = j.members[i][1]
                                /\ \A m \in (k + 1)..Len(j.members) :
                                     j.members[m][1] # j.members[i][1]
               IN PyDict([n \in 1..Len(first) |->
                            <<j.members[first[n]][1], decode(j.members[last(first[n])][2])>>])
  IN decode(text)

\* Faulty variant: the payload is the stamp alone.
Payload_stamp_only(data, t) == PyDict(<<<<"_cached_at", PyFloat(t)>>>>)

\* payload = {**data, "_cached_at": time.time()}
Payload(data, t) == DictSet(data, "_cached_at", PyFloat(t))

\* _save_to_cache, the open succeeding: the text the file holds afterwards.
SaveText(data, t) == json_dump(Payload(data, t))

\* _load_from_cache on a file that holds text.
LoadText(text, t) ==
  LET data == json_load(text)
  IN IF t - DictGet(data, "_cached_at", PyFloat(0)).v > CACHE_TTL_SECONDS THEN None ELSE data

\* The records saved: a concept as each kind of adapter builds it, a labels record,
\* a record a peer tool wrote (stamped long ago, with a member of its own), and {}.
JRecords ==
  {PyDict(<<<<"uri", PyStr("c_13551")>>, <<"prefLabel", PyStr("Potato")>>,
            <<"source", PyStr("agrovoc")>>,
            <<"broader", PyList(<<PyDict(<<<<"uri", PyStr("c_8079")>>,
                                           <<"label", PyStr("vegetables")>>>>)>>)>>>>),
   PyDict(<<<<"uri", PyStr("http://www.wikidata.org/entity/Q10998")>>,
            <<"prefLabel", PyStr("potato")>>, <<"source", PyStr("wikidata")>>,
            <<"broader", PyList(<<>>)>>, <<"description", PyNone>>>>),
   PyDict(<<<<"uri", PyStr(LabelUris[1])>>, <<"source", PyStr("agrovoc")>>,
            <<"labels", PyDict(<<<<"en", PyStr("potatoes")>>, <<"nb", PyStr("poteter")>>>>)>>>>),
   PyDict(<<<<"_cached_at", PyFloat(0)>>, <<"uri", PyStr("c_13551")>>,
            <<"altLabel", PyDict(<<<<"en", PyList(<<PyStr("spud")>>)>>>>)>>>>),
   PyDict(<<>>)}

InitJ ==
  /\ files = SeedDir(Missing, Missing)
  /\ now = StartTime
  /\ writable = TRUE
  /\ ops = 0
  /\ pc = "idle"
  /\ args = NoArgs
  /\ cached = None
  /\ up = NoUp
  /\ result = None
  /\ pending = None
  /\ trace = <<>>
  /\ files0 = files
  /\ prev = NoPrev
  /\ added = [k \in ConceptKeys |-> -1]
  /\ HQuiet
  /\ lcall = Idle
  /\ lhist = Idle
  /\ stats = None
  /\ response = None
  /\ \E r \in JRecords : jcall = [at |-> "start", r |-> r]
  /\ jfile = None
  /\ procs = <<>>

\* _save_to_cache(cache_path, r)
JSave ==
  /\ jcall.at = "start"
  /\ jfile' = SaveText(jcall.r, now)
  /\ jcall' = [at |-> "saved", r |-> jcall.r, t_save |-> now]
  /\ UNCHANGED <<lvars, hvars, gvars, rvars, cvars>>

\* _load_from_cache(cache_path)
JLoad ==
  /\ jcall.at = "saved"
  /\ jcall' = [at |-> "loaded", r |-> jcall.r, t_save |-> jcall.t_save, t_load |-> now,
               loaded |-> LoadText(jfile, now)]
  /\ UNCHANGED jfile
  /\ UNCHANGED <<lvars, hvars, gvars, rvars, cvars>>

\* _save_to_cache(cache_path, loaded)
JSaveAgain ==
  /\ jcall.at = "loaded"
  /\ jcall.loaded # None
  /\ jfile' = SaveText(jcall.loaded, now)
  /\ jcall' = [at |-> "resaved", r |-> jcall.r, t_save |-> jcall.t_save,
               t_load |-> jcall.t_load, loaded |-> jcall.loaded, stored |-> jfile]
  /\ UNCHANGED <<lvars, hvars, gvars, rvars, cvars>>

NextJ ==
  \/ JSave
  \/ JLoad
  \/ JSaveAgain
  \/ \E d \in ClockSteps : Advance(d)

SpecJ == InitJ /\ [][NextJ]_vars

(***************************************************************************)
(* SpecC: two worker threads (asyncio.to_thread) run lookup_concept on one *)
(* cache directory, with no lock.  A thread's steps are its system calls:  *)
(* the read of a file, open(path, "w"), which truncates the file, and the  *)
(* write of the buffered text at close, which starts at offset 0 of the    *)
(* writer's own file position.  Writes succeed.                            *)
(***************************************************************************)
Threads == {1, 2}
MaxLookups == 2

CLabel == "Potato"
CLang == "en"
CSources == {"agrovoc", "wikidata"}

\* The answers the upstream gives a thread: one candidate, none, or a failed request,
\* and a broader list that may differ from one call to the next.
CSearchResponses ==
  {[kind |-> "json", results |-> <<cPotato>>], [kind |-> "json", results |-> <<>>],
   [kind |-> "timeout", results |-> <<>>]}
CBroaderResponses == [kind : {"json"}, broader : BroaderLists]

SumLen(keys) ==
  LET sum[T \in SUBSET keys] ==
        IF T = {} THEN 0 ELSE LET k == CHOOSE k \in T : TRUE IN Len(k) + sum[T \ {k}]
  IN sum[keys]

\* The length of the text json.dump writes for an object of the cache: the characters
\* of its strings and a fixed cost for each member, list item and entry.
TextSize(data) ==
  IF "entries" \in DOMAIN data
  THEN 16 + SumLen(DOMAIN data.entries) + 24 * Cardinality(DOMAIN data.entries)
  ELSE LET broader == Get(data, "broader", <<>>)
           items[i \in 0..Len(broader)] ==
             IF i = 0 THEN 0
             ELSE items[i - 1] + Len(broader[i].uri) + Len(broader[i].label) + 24
       IN 8 * Cardinality(DOMAIN data) + Len(Get(data, "uri", ""))
            + Len(Get(data, "prefLabel", "")) + Len(Get(data, "source", ""))
            + items[Len(broader)]

\* A file whose text is a shorter write laid over the start of a longer one: size
\* characters, of which the tail is left from the longer text.  json.load raises
\* json.JSONDecodeError (extra data) on it.
Torn(size) == [kind |-> "corrupt", size |-> size]

FileSize(f) ==
  IF f.kind = "json" THEN TextSize(f.data)
  ELSE IF f.kind = "corrupt" THEN Get(f, "size", 0)
  ELSE 0

\* open(path, "w"): the file exists and is empty.
OpenW(fs, path) == [fs EXCEPT ![path] = Truncated]

\* The write of the text of data at offset 0; a longer text already in the file keeps
\* its tail.
WriteAt(fs, path, data) ==
  [fs EXCEPT ![path] = IF FileSize(fs[path]) > TextSize(data)
                       THEN Torn(FileSize(fs[path]))
                       ELSE Json(data)]

\* _add_to_not_found_cache, lines 126-134: the object read from the file, or
\* {"entries": {}}, with the entry of key set.
NegativeContent(f, key, t) ==
  LET data == IF f.kind = "json" THEN f.data ELSE [entries |-> <<>>]
      entries == Get(data, "entries", <<>>)
  IN With(data, "entries", [k \in DOMAIN entries \cup {key} |->
                              IF k = key THEN [cached_at |-> t] ELSE entries[k]])

\* A thread: where it is in lookup_concept, its locals, the upstream calls of the
\* lookup in progress, whether both caches missed, the number of lookups it has
\* started, the keys it has written negative entries for, and the rank of its last
\* write among all the writes.
NoProc ==
  [pc |-> "idle", source |-> "", cached |-> None, up |-> Outcome(None, FALSE, <<>>),
   content |-> None, calls |-> 0, missed |-> FALSE, result |-> None, lookups |-> 0,
   negs |-> {}, order |-> 0]

CKey(p) == ConceptKey(CLabel, CLang, procs[p].source)
CPath(p) == ConceptPath(CLabel, CLang, procs[p].source)

InitC ==
  /\ files = SeedDir(Missing, Missing)
  /\ now = StartTime
  /\ writable = TRUE
  /\ ops = 0
  /\ pc = "idle"
  /\ args = NoArgs
  /\ cached = None
  /\ up = NoUp
  /\ result = None
  /\ pending = None
  /\ trace = <<>>
  /\ files0 = files
  /\ prev = NoPrev
  /\ added = [k \in ConceptKeys |-> -1]
  /\ HQuiet
  /\ lcall = Idle
  /\ lhist = Idle
  /\ stats = None
  /\ response = None
  /\ jcall = Idle
  /\ jfile = None
  /\ procs = [p \in Threads |-> NoProc]

\* One step of thread p: its record and the directory afterwards.
Run(p, proc, fs) ==
  /\ procs' = [procs EXCEPT ![p] = proc]
  /\ files' = fs
  /\ UNCHANGED <<now, writable, ops, pc, args, cached, up, result, pending, trace, files0,
                 prev, added>>
  /\ UNCHANGED <<hvars, gvars, rvars, jvars>>

\* The rank of the next write.
NextOrder == 1 + Cardinality({q \in Threads : procs[q].order > 0})
               + Cardinality({q \in Threads : procs[q].order > 1})
               + Cardinality({q \in Threads : procs[q].order > 2})

\* await asyncio.to_thread(skos_service.lookup_concept, label, lang, source, ...)
CCall(p, source) ==
  /\ procs[p].pc = "idle"
  /\ procs[p].lookups < MaxLookups
  /\ Run(p, [NoProc EXCEPT !.pc = "load", !.source = source,
                           !.lookups = procs[p].lookups + 1, !.negs = procs[p].negs],
         files)

\* cached = _load_from_cache(cache_path)
CLoad(p) ==
  /\ procs[p].pc = "load"
  /\ LET c == _load_from_cache(files, CPath(p), now)
     IN Run(p, [procs[p] EXCEPT !.cached = c, !.pc = AfterLoad(c),
                                !.result = IF AfterLoad(c) = "return" THEN c ELSE None],
            files)

\* if _is_in_not_found_cache(cache_dir, cache_key): return None
CNegative(p) ==
  /\ procs[p].pc = "is_negative"
  /\ LET neg == _is_in_not_found_cache(files, CKey(p), now)
     IN Run(p, [procs[p] EXCEPT !.pc = AfterNegative(neg), !.missed = ~neg], files)

\* concept, query_failed = _upstream_lookup(label, lang, source), and the branch on
\* its outcome.
CUpstream(p, resp, bresp) ==
  /\ procs[p].pc = "upstream"
  /\ LET o == _upstream_lookup(CLabel, CLang, procs[p].source, resp, bresp)
         kind == StoreKind(o.concept, o.query_failed)
     IN Run(p, [procs[p] EXCEPT !.up = o, !.calls = procs[p].calls + 1,
                                !.result = o.concept,
                                !.pc = IF kind = "save" THEN "save_open"
                                       ELSE IF kind = "add_negative" THEN "neg_read"
                                       ELSE "return"],
            files)

\* _save_to_cache: mkdir, the payload, open(cache_path, "w")
CSaveOpen(p) ==
  /\ procs[p].pc = "save_open"
  /\ Run(p, [procs[p] EXCEPT !.content = With(procs[p].up.concept, "_cached_at", now),
                             !.pc = "save_dump"],
         OpenW(files, CPath(p)))

\* _save_to_cache: json.dump and the close of the file
CSaveDump(p) ==
  /\ procs[p].pc = "save_dump"
  /\ Run(p, [procs[p] EXCEPT !.pc = "return", !.order = NextOrder],
         WriteAt(files, CPath(p), procs[p].content))

\* _add_to_not_found_cache: mkdir, the read of the file, the new entry
CNegRead(p) ==
  /\ procs[p].pc = "neg_read"
  /\ Run(p, [procs[p] EXCEPT !.content = NegativeContent(files[_get_not_found_cache_path],
                                                         CKey(p), now),
                             !.pc = "neg_open"],
         files)

\* _add_to_not_found_cache: open(cache_path, "w")
CNegOpen(p) ==
  /\ procs[p].pc = "neg_open"
  /\ Run(p, [procs[p] EXCEPT !.pc = "neg_dump"], OpenW(files, _get_not_found_cache_path))

\* _add_to_not_found_cache: json.dump and the close of the file
CNegDump(p) ==
  /\ procs[p].pc = "neg_dump"
  /\ Run(p, [procs[p] EXCEPT !.pc = "return", !.order = NextOrder,
                             !.negs = procs[p].negs \cup {CKey(p)}],
         WriteAt(files, _get_not_found_cache_path, procs[p].content))

\* The thread is done; the awaiting handler has its result.
CReturn(p) ==
  /\ procs[p].pc = "return"
  /\ procs[p].lookups < MaxLookups
  /\ Run(p, [procs[p] EXCEPT !.pc = "idle"], files)

NextC ==
  \E p \in Threads :
    \/ \E source \in CSources : CCall(p, source)
    \/ CLoad(p)
    \/ CNegative(p)
    \/ \E resp \in CSearchResponses, bresp \in CBroaderResponses : CUpstream(p, resp, bresp)
    \/ CSaveOpen(p)
    \/ CSaveDump(p)
    \/ CNegRead(p)
    \/ CNegOpen(p)
    \/ CNegDump(p)
    \/ CReturn(p)

SpecC == InitC /\ [][NextC]_vars

(***************************************************************************)
(* SpecT: _load_from_cache and _is_in_not_found_cache applied, at times    *)
(* around one and two TTLs, to files whose stamps put the entry at, just   *)
(* under and just over the TTL, and to entries with no stamp.              *)
(***************************************************************************)
MaxTicks == 2

TStamps == {0, 1, CACHE_TTL_SECONDS}

TPositives ==
  {Missing, Corrupt, Json(SeedRecord("c_13551"))}
    \cup {Json(With(SeedRecord("c_13551"), "_cached_at", s)) : s \in TStamps}

\* An entry of _not_found.json with a cached_at, and one without.
TEntry(s) == [cached_at |-> s]
TEntryNoStamp == [f \in {} |-> 0]

TNegatives ==
  {Missing, Corrupt, Json([entries |-> <<>>])}
    \cup {Json([entries |-> [k \in {SeedKey} |-> e]]) :
            e \in {TEntry(s) : s \in TStamps} \cup {TEntryNoStamp}}

InitT ==
  /\ \E pos \in TPositives, neg \in TNegatives : files = SeedDir(pos, neg)
  /\ now \in {CACHE_TTL_SECONDS - 1, 2 * CACHE_TTL_SECONDS - 1}
  /\ writable = TRUE
  /\ ops = 0
  /\ pc = "idle"
  /\ args = NoArgs
  /\ cached = None
  /\ up = NoUp
  /\ result = None
  /\ pending = None
  /\ trace = <<>>
  /\ files0 = files
  /\ prev = NoPrev
  /\ added = [k \in ConceptKeys |-> -1]
  /\ HQuiet
  /\ lcall = Idle
  /\ lhist = Idle
  /\ stats = None
  /\ response = None
  /\ jcall = Idle
  /\ jfile = None
  /\ procs = <<>>

\* _load_from_cache(cache_path) at time now
TLoad ==
  /\ jcall' = [at |-> "load", t |-> now, value |-> _load_from_cache(files, SeedPath, now)]
  /\ UNCHANGED <<lvars, hvars, gvars, rvars, jfile, cvars>>

\* _is_in_not_found_cache(cache_dir, key) at time now
TIsNegative ==
  /\ jcall' = [at |-> "is_negative", t |-> now,
               value |-> _is_in_not_found_cache(files, SeedKey, now)]
  /\ UNCHANGED <<lvars, hvars, gvars, rvars, jfile, cvars>>

\* One second passes.
TTick ==
  /\ (now + 1) % CACHE_TTL_SECONDS < MaxTicks
  /\ now' = now + 1
  /\ UNCHANGED <<files, writable, ops, pc, args, cached, up, result, pending, trace, files0,
                 prev, added>>
  /\ UNCHANGED <<hvars, xvars>>

NextT ==
  \/ TLoad
  \/ TIsNegative
  \/ TTick

SpecT == InitT /\ [][NextT]_vars

(***************************************************************************)
(* SpecE: lookup_concept over a directory whose positive file of           *)
(* concept:agrovoc:en:potato holds a fresh record with a uri, with an      *)
(* empty uri or with no uri member, beside a _not_found.json that holds    *)
(* the key or does not.                                                    *)
(***************************************************************************)
\* A record without a uri member.
SeedRecordNoUri == [prefLabel |-> "potatoes", source |-> "agrovoc", broader |-> <<>>]

SeedDirsE ==
  {SeedDir(Json(With(r, "_cached_at", StartTime)), neg) :
     r \in {SeedRecord("c_13551"), SeedRecord(""), SeedRecordNoUri},
     neg \in {Missing, Json([entries |-> <<>>]), NegativeSeed(StartTime)}}

InitE ==
  /\ files \in SeedDirsE
  /\ now = StartTime
  /\ writable = TRUE
  /\ ops = 0
  /\ pc = "idle"
  /\ args = NoArgs
  /\ cached = None
  /\ up = NoUp
  /\ result = None
  /\ pending = None
  /\ trace = <<>>
  /\ files0 = files
  /\ prev = NoPrev
  /\ added = [k \in ConceptKeys |-> -1]
  /\ HQuiet
  /\ XQuiet

SpecE == InitE /\ [][Next]_vars

(***************************************************************************)
(* SpecU: one adapter search applied to an answer of the upstream.         *)
(***************************************************************************)
\* A candidate with a URI whose labels do not match the label looked up.
cTuber == [uri |-> "c_7860", prefLabel |-> "Tuber", altLabel |-> <<>>]

UResultLists ==
  ResultLists \cup {<<cTuber>>, <<cNoUri, cTuber>>, <<cTuber, cNoUri>>, <<cTuber, cPotato>>,
                    <<cPotato, cNoUri>>, <<cNoUri, cNoUri>>}

USearchResponses ==
  [kind : HttpFailures \cup {"non_json"}, results : {<<>>}]
    \cup [kind : {"json"}, results : UResultLists]

InitU ==
  /\ files = SeedDir(Missing, Missing)
  /\ now = StartTime
  /\ writable = TRUE
  /\ ops = 0
  /\ pc = "idle"
  /\ args = NoArgs
  /\ cached = None
  /\ up = NoUp
  /\ result = None
  /\ pending = None
  /\ trace = <<>>
  /\ files0 = files
  /\ prev = NoPrev
  /\ added = [k \in ConceptKeys |-> -1]
  /\ HQuiet
  /\ XQuiet

\* concept, query_failed = _upstream_lookup(label, lang, source)
USearch(label, lang, source, resp, bresp) ==
  /\ jcall' = [at |-> "search", label |-> label, source |-> source, resp |-> resp,
               bresp |-> bresp,
               outcome |-> _upstream_lookup(label, lang, source, resp, bresp)]
  /\ UNCHANGED <<lvars, hvars, gvars, rvars, jfile, cvars>>

NextU ==
  \E label \in Labels, lang \in Langs, source \in KnownSources,
     resp \in USearchResponses, bresp \in BroaderResponses :
    USearch(label, lang, source, resp, bresp)

SpecU == InitU /\ [][NextU]_vars

(***************************************************************************)
(* SpecG: build_hierarchy_paths over the taxonomies of SpecH and over      *)
(* taxonomies with records without URI, with two broader concepts whose    *)
(* labels normalise to one segment, and from a starting label that is      *)
(* itself a root of the root table.                                        *)
(***************************************************************************)
str_Sweet_potato_sp == <<"S", "w", "e", "e", "t", " ", "p", "o", "t", "a", "t", "o">>

\* alpha, with a URI, below beta, without one; beta's broader entry resolves to
\* nothing.
NoUriWorld ==
  (str_alpha :> Concept("http://x/a", str_alpha, <<Item("", str_beta)>>))
  @@ (str_beta :> Concept("", str_beta, <<Item("", str_xyzzy)>>))

\* potatoes below "Sweet-potato" and "Sweet potato", two root concepts.
TwinWorld ==
  (str_potatoes :>
     Concept("http://x/leaf", str_potatoes,
             <<Item("http://x/sp1", str_Sweet_potato), Item("http://x/sp2", str_Sweet_potato_sp)>>))
  @@ (StrLower(str_Sweet_potato) :> Concept("http://x/sp1", str_Sweet_potato, <<>>))
  @@ (StrLower(str_Sweet_potato_sp) :> Concept("http://x/sp2", str_Sweet_potato_sp, <<>>))

WalksG ==
  Walks
    \cup {Walk(NoUriWorld, "agrovoc", l) : l \in {str_alpha, str_beta}}
    \cup {Walk(TwinWorld, "agrovoc", str_Potatoes_)}
    \cup {Walk(RootMapWorld, src, str_Plant_products) : src \in {"agrovoc", "dbpedia"}}

InitG ==
  /\ files = SeedDir(Missing, Missing)
  /\ now = StartTime
  /\ writable = TRUE
  /\ ops = 0
  /\ pc = "idle"
  /\ args = NoArgs
  /\ cached = None
  /\ up = NoUp
  /\ result = None
  /\ pending = None
  /\ trace = <<>>
  /\ files0 = files
  /\ prev = NoPrev
  /\ added = [k \in ConceptKeys |-> -1]
  /\ \E w \in WalksG :
       /\ hworld = w.world
       /\ hsource = w.source
       /\ hstack = <<Frame(w.label, <<>>, <<>>, {}, 0)>>
  /\ hret = None
  /\ hlog = <<>>
  /\ hmiss = FALSE
  /\ XQuiet

SpecG == InitG /\ [][NextH]_vars /\ WF_vars(NextH)

(***************************************************************************)
(* SpecP: lookups one after the other on a directory that starts empty and *)
(* that nothing else writes, the clock moving forward between them.        *)
(***************************************************************************)
InitP ==
  /\ files = SeedDir(Missing, Missing)
  /\ now = StartTime
  /\ writable = TRUE
  /\ ops = 0
  /\ pc = "idle"
  /\ args = NoArgs
  /\ cached = None
  /\ up = NoUp
  /\ result = None
  /\ pending = None
  /\ trace = <<>>
  /\ files0 = files
  /\ prev = NoPrev
  /\ added = [k \in ConceptKeys |-> -1]
  /\ HQuiet
  /\ XQuiet

NextP ==
  \/ \E label \in Labels, lang \in Langs, source \in Sources : Call(label, lang, source)
  \/ LoadStep
  \/ NegativeStep
  \/ \E resp \in SearchResponses, bresp \in BroaderResponses : UpstreamStep(resp, bresp)
  \/ StoreStep
  \/ Return
  \/ \E d \in ClockSteps : Advance(d)

SpecP == InitP /\ [][NextP]_vars

(***************************************************************************)
(* SpecM: get_labels calls for one URI after the other, on a directory     *)
(* that starts empty, the later ones asking for a language the earlier     *)
(* ones did not ask for.                                                   *)
(***************************************************************************)
LanguageListsM == {<<"en">>, <<"nb", "en">>}

InitM ==
  /\ InitL
  /\ files = [p \in Paths |-> Missing]

NextM ==
  \/ \E uri \in UriSet, languages \in LanguageListsM, source \in {"agrovoc", "wikidata"},
        lresp \in LabelResponses : GetLabels(uri, languages, source, lresp)
  \/ LabelsReturn
  \/ \E d \in ClockSteps : Advance(d)

SpecM == InitM /\ [][NextM]_vars

(***************************************************************************)
(* SpecB: lookups one after the other on a directory that starts empty,    *)
(* where the data request that fetches the broader concepts may fail in    *)
(* every way the search request may.  jcall remembers the last lookup      *)
(* whose data request failed.                                              *)
(***************************************************************************)
BroaderFailures == HttpFailures \cup {"non_json"}

BroaderResponsesB ==
  [kind : BroaderFailures, broader : {<<>>}] \cup [kind : {"json"}, broader : BroaderLists]

\* concept, query_failed = _upstream_lookup(label, lang, source), the adapter's data
\* request answered by bresp.
UpstreamStepB(resp, bresp) ==
  /\ UpstreamCall(resp, bresp)
  /\ jcall' = IF Len(up'.http) = 2 /\ bresp.kind \in BroaderFailures
              THEN [at |-> "data", args |-> args, kind |-> bresp.kind, t |-> now]
              ELSE jcall
  /\ UNCHANGED <<hvars, gvars, rvars, jfile, cvars>>

NextB ==
  \/ \E label \in Labels, lang \in Langs, source \in Sources : Call(label, lang, source)
  \/ LoadStep
  \/ NegativeStep
  \/ \E resp \in SearchResponses, bresp \in BroaderResponsesB : UpstreamStepB(resp, bresp)
  \/ StoreStep
  \/ Return
  \/ \E d \in ClockSteps : Advance(d)

SpecB == InitP /\ [][NextB]_vars

(***************************************************************************)
(* SpecF: every operation of the resolver, and direct calls of             *)
(* _add_to_not_found_cache, one after the other on a directory that holds  *)
(* a _not_found.json: unparseable, without entries, or with fresh and      *)
(* expired entries, next to a positive record or not.                      *)
(***************************************************************************)
\* An expired entry for the seeded key and a fresh one for the same label at DBpedia.
NegativeSeedTwo ==
  Json([entries |->
          [k \in {SeedKey, ConceptKey("Potato", "en", "dbpedia")} |->
             [cached_at |-> IF k = SeedKey THEN StartTime - CACHE_TTL_SECONDS - 1
                            ELSE StartTime]]])

SeedDirsF ==
  {SeedDir(pos, neg) :
     pos \in {Missing, Json(With(SeedRecord("c_13551"), "_cached_at", StartTime))},
     neg \in {Corrupt, Json(<<>>), NegativeSeedTwo,
              NegativeSeed(StartTime - CACHE_TTL_SECONDS - 1)}}

InitF ==
  /\ files \in SeedDirsF
  /\ now = StartTime
  /\ writable = TRUE
  /\ ops = 0
  /\ pc = "idle"
  /\ args = NoArgs
  /\ cached = None
  /\ up = NoUp
  /\ result = None
  /\ pending = None
  /\ trace = <<>>
  /\ files0 = files
  /\ prev = NoPrev
  /\ added = [k \in ConceptKeys |-> -1]
  /\ HQuiet
  /\ lcall = Idle
  /\ lhist = [NoHistory EXCEPT !.empty = FALSE]
  /\ stats = None
  /\ response = None
  /\ jcall = Idle
  /\ jfile = None
  /\ procs = <<>>

NextF ==
  \/ NextS
  \/ \E key \in ConceptKeys : AddNegative(key)

SpecF == InitF /\ [][NextF]_vars

(***************************************************************************)
(* Properties of lookup_concept and of the cache store.                    *)
(***************************************************************************)
\* The positive cache holds, at path, a record with a non-empty uri that is fresh
\* at time t: t - _cached_at <= TTL.
FreshPositive(fs, path, t) ==
  /\ fs[path].kind = "json"
  /\ t - Get(fs[path].data, "_cached_at", 0) <= CACHE_TTL_SECONDS
  /\ Get(fs[path].data, "uri", "") # ""

\* The negative cache holds an entry for key that is fresh at time t.
FreshNegative(fs, key, t) ==
  /\ fs[_get_not_found_cache_path].kind = "json"
  /\ key \in DOMAIN Get(fs[_get_not_found_cache_path].data, "entries", <<>>)
  /\ t - Get(fs[_get_not_found_cache_path].data.entries[key], "cached_at", 0)
       <= CACHE_TTL_SECONDS

UpstreamCalls == Count(trace, "upstream")
HttpCalls == Cardinality({i \in 1..Len(trace) : trace[i] \in {"http:search", "http:data"}})
Writes == Count(trace, "save") + Count(trace, "add_negative")
ChangedPaths == {p \in Paths : files[p] # files0[p]}

\* C1: a lookup whose key concept:<source>:<lang>:<lowercased label> has a fresh
\* positive record with a non-empty uri never leaves the positive-cache read for the
\* negative cache or the upstream: it makes no upstream call and returns that record.
C1_PositiveHitNoUpstream ==
  (pc # "idle" /\ FreshPositive(files0, CallPath, now)) =>
    /\ pc \in {"load", "return"}
    /\ UpstreamCalls = 0 /\ HttpCalls = 0
    /\ pc = "return" => result = files0[CallPath].data

\* A lookup of "Potato" returns the record stored under ...:potato, aged exactly the TTL.
C1_Witness ==
  /\ pc = "return"
  /\ args.label = "Potato"
  /\ CallKey = "concept:agrovoc:en:potato"
  /\ FreshPositive(files0, CallPath, now)
  /\ result = files0[CallPath].data
  /\ now - result._cached_at = CACHE_TTL_SECONDS
  /\ trace = <<"load">>

\* C2: a lookup whose key has no fresh positive record and a fresh negative entry
\* makes no upstream call and returns absent.
C2_NegativeHitNoUpstream ==
  (pc # "idle" /\ ~FreshPositive(files0, CallPath, now) /\ FreshNegative(files0, CallKey, now)) =>
    /\ pc \in {"load", "is_negative", "return"}
    /\ UpstreamCalls = 0 /\ HttpCalls = 0
    /\ pc = "return" => result = None

\* The negative entry is aged exactly the TTL and an expired positive record exists.
C2_Witness ==
  /\ pc = "return"
  /\ files0[CallPath].kind = "json"
  /\ ~FreshPositive(files0, CallPath, now)
  /\ FreshNegative(files0, CallKey, now)
  /\ now - files0[_get_not_found_cache_path].data.entries[CallKey].cached_at = CACHE_TTL_SECONDS
  /\ result = None
  /\ trace = <<"load", "is_negative">>

\* C3: when the upstream search reports query_failed, lookup returns absent and no
\* file of the cache directory is created or modified.
C3_TransientFailureWritesNothing ==
  (pc # "idle" /\ up.query_failed) =>
    /\ files = files0
    /\ Writes = 0
    /\ pc = "return" => result = None

C3_Witness ==
  /\ pc = "return"
  /\ up.query_failed
  /\ up.resp = "timeout"
  /\ UpstreamCalls = 1
  /\ files = files0

C6_OneAttemptOneWrite ==
  /\ UpstreamCalls <= 1
  /\ Count(trace, "http:search") <= 1
  /\ Writes <= 1
  /\ Cardinality(ChangedPaths) <= 1
  /\ ChangedPaths \subseteq {CallPath, _get_not_found_cache_path}

C6_Witness ==
  /\ pc = "return"
  /\ UpstreamCalls = 1
  /\ Count(trace, "http:search") = 1
  /\ ChangedPaths = {_get_not_found_cache_path}

\* C7, as claimed: two lookups with the same arguments, one right after the other,
\* make at most one upstream call in total.
C7_AsClaimed ==
  (pc = "return" /\ prev.args = args) => prev.upstream + UpstreamCalls <= 1

\* C7, amended: two lookups with the same arguments, one right after the other, in a
\* writable cache directory, make at most one upstream call in total unless the
\* upstream search of the first one reported a failed query (which no cache records).
C7_SecondServedFromCache ==
  (pc = "return" /\ prev.args = args /\ ~prev.query_failed /\ writable) =>
    prev.upstream + UpstreamCalls <= 1

C7_Witness ==
  /\ pc = "return"
  /\ prev.args = args
  /\ prev.upstream = 1 /\ ~prev.query_failed
  /\ UpstreamCalls = 0
  /\ result = None

\* C8, as claimed: an adapter search answers (absent, query_failed = true) to a
\* timeout, a connection error, an error status and a non-JSON body, and (absent,
\* false) to a JSON body without results; a lookup answered by a non-JSON body does
\* not add its key to the negative cache.
C8_AsClaimed ==
  (pc \in {"store", "return"} /\ args.source \in KnownSources) =>
    /\ up.resp \in HttpFailures \cup {"non_json"} => (up.concept = None /\ up.query_failed)
    /\ (up.resp = "json" /\ up.candidates = 0) => (up.concept = None /\ ~up.query_failed)
    /\ (pc = "return" /\ up.resp = "non_json") =>
         files[_get_not_found_cache_path] = files0[_get_not_found_cache_path]

C10_UnknownSource ==
  (pc # "idle" /\ args.source \notin KnownSources) =>
    /\ HttpCalls = 0
    /\ files = files0
    /\ UpstreamCalls = 1 => (up.concept = None /\ up.query_failed /\ up.http = <<>>)
    /\ pc = "return" => result = None

C10_Witness ==
  /\ pc = "return"
  /\ args.source = "gnd"
  /\ trace = <<"load", "is_negative", "upstream">>
  /\ up.query_failed
  /\ result = None

\* C11, as claimed: when the write after the upstream call fails at mkdir, at open or
\* during the dump, lookup_concept raises nothing and returns what the upstream
\* returned.
C11_AsClaimed ==
  (\E i \in 1..Len(trace) : trace[i] \in {"mkdir_failed", "open_failed", "dump_failed"}) =>
    /\ pc # "raised"
    /\ pc = "return" => result = up.concept

\* C12, as claimed: whatever the positive file of the key holds, _load_from_cache
\* returns a record or None, and when it returns no usable record lookup_concept goes
\* on to the negative cache as on a miss.
C12_AsClaimed ==
  (pc # "idle" /\ Len(trace) >= 1) =>
    /\ ~IsRaise(cached)
    /\ pc # "raised"
    /\ (Len(trace) = 1 /\ ~FreshPositive(files0, CallPath, now)) => pc = "is_negative"

\* C13, as claimed: at every instant of a lookup a cache file is missing, or holds
\* what it held when the lookup began, or holds the complete payload of the write.
C13_AsClaimed ==
  \A p \in Paths :
    \/ files[p] = Missing
    \/ files[p] = files0[p]
    \/ pending # None /\ files[p] = Json(pending)

(***************************************************************************)
(* Properties of build_hierarchy_paths.                                    *)
(***************************************************************************)
\* Labels resolved on the current descent: frames holding a record.
Resolved == Cardinality({k \in 1..Len(hstack) : hstack[k].concept # None})

\* The frames that have returned with the given reason.
Returned(why) == {k \in 1..Len(hlog) : hlog[k].why = why}

\* key is a prefix of path that ends where a segment of path ends.
IsSegmentPrefix(key, path) ==
  /\ Len(key) <= Len(path)
  /\ SubSeq(path, 1, Len(key)) = key
  /\ Len(key) = Len(path) \/ path[Len(key) + 1] = "/"

\* C14, as claimed: every walk ends, and no descent is deeper than MAX_DEPTH frames.
C14_AsClaimed == <>HDone /\ [](Len(hstack) <= MAX_DEPTH)

\* C14, amended: every walk ends, whatever the taxonomy (linear, branching, cyclic)
\* and whatever the lookups answer, and no descent is deeper than MAX_DEPTH + 1
\* frames: the entry frame and MAX_DEPTH recursive ones.
C14_TerminatesWithinDepthPlusOne ==
  <>HDone /\ [](Len(hstack) <= MAX_DEPTH + 1 /\ \A k \in 1..Len(hstack) : hstack[k]._depth = k - 1)

\* A walk that went MAX_DEPTH + 1 frames deep has ended.
C14_Witness ==
  /\ HDone
  /\ \E k \in Returned("depth_cap") : hlog[k].frame._depth = MAX_DEPTH

\* C15: a frame whose record has a URI already visited on its descent returns
\* ([], true, {}) and starts no further frame (the frames of a descent that go on to
\* their broader entries have pairwise different URIs), and on a walk that met a cycle
\* every path a root frame emitted is among the paths of the final result.
C15_CyclePrunedSiblingsKept ==
  /\ \A k \in Returned("cycle") :
       /\ hlog[k].result = HResult(<<>>, TRUE, <<>>)
       /\ ConceptUri(hlog[k].frame.concept) \in hlog[k].frame._visited_uris
  /\ \A j \in 1..Len(hstack), k \in 1..Len(hstack) :
       (j < k /\ hstack[j].at \in {"loop", "wait"} /\ hstack[k].at \in {"loop", "wait"}) =>
         ConceptUri(hstack[j].concept) # ConceptUri(hstack[k].concept)
  /\ (HDone /\ Returned("cycle") # {}) =>
       \A k \in Returned("root") :
         \E n \in 1..Len(hret.paths) : hret.paths[n] = hlog[k].result.paths[1]

\* alpha -> beta -> alpha was pruned and the roots beside beta and beside alpha both
\* gave their path.
C15_Witness ==
  /\ HDone
  /\ Returned("cycle") # {}
  /\ hret.found
  /\ hret.paths = <<Join(<<str_nutrition, str_beta, str_alpha>>), Join(<<str_food, str_alpha>>)>>

\* C16, as claimed: the 15th frame of a descent returns ([], false, {}) without
\* resolving a label, so a descent resolves fewer than MAX_DEPTH labels.
C16_AsClaimed ==
  /\ \A k \in 1..Len(hstack) : k >= MAX_DEPTH => hstack[k].at = "enter"
  /\ Resolved < MAX_DEPTH

\* C16, amended: the cap is reached at the frame of depth MAX_DEPTH, the 16th of a
\* descent: it returns ([], false, {}) without resolving a label, so a descent
\* resolves at most MAX_DEPTH labels.
C16_CapAtSixteenthFrame ==
  /\ \A k \in 1..Len(hstack) : k >= MAX_DEPTH + 1 => hstack[k].at = "enter"
  /\ \A k \in Returned("depth_cap") :
       /\ hlog[k].frame._depth = MAX_DEPTH
       /\ hlog[k].frame.concept = None
       /\ hlog[k].result = HResult(<<>>, FALSE, <<>>)
  /\ \A k \in 1..Len(hlog) : hlog[k].frame._depth < MAX_DEPTH => hlog[k].why # "depth_cap"
  /\ Resolved <= MAX_DEPTH

\* The 16th frame has just returned to a descent of MAX_DEPTH frames, each of which
\* resolved its label.
C16_Witness ==
  /\ Len(hstack) = MAX_DEPTH
  /\ Resolved = MAX_DEPTH
  /\ hret = HResult(<<>>, FALSE, <<>>)
  /\ hlog[Len(hlog)].why = "depth_cap"

\* C17: a root frame whose lower-cased prefLabel is a key of the root table of the
\* source emits one path whose first segment is the mapped value, the other segments
\* being the normalised labels below the root; its uri_map has no entry for the
\* one-segment key and maps every longer prefix to the URI of the concept there.
C17_RootRemapped ==
  \A k \in Returned("root") :
    LET f == hlog[k].frame
        root_label == StrLower(PrefLabel(f.concept, f.label))
        root_map == ROOT_MAPPING(hsource)
        res == hlog[k].result
    IN root_label \in DOMAIN root_map =>
         LET segs == <<root_map[root_label]>> \o f._current_path
             uris == <<ConceptUri(f.concept)>> \o f._current_uris
         IN /\ res.paths = <<Join(segs)>>
            /\ res.found
            /\ Join(<<segs[1]>>) \notin DOMAIN res.uri_map
            /\ DOMAIN res.uri_map = {Join(SubSeq(segs, 1, i)) : i \in 2..Len(segs)}
            /\ \A i \in 2..Len(segs) : res.uri_map[Join(SubSeq(segs, 1, i))] = uris[i]

\* "Plant products" above Vegetables, source agrovoc: food/vegetables, no key food.
C17_Witness ==
  /\ HDone
  /\ hsource = "agrovoc"
  /\ hlog[1].why = "root"
  /\ StrLower(hlog[1].frame.concept.prefLabel) = StrLower(str_Plant_products)
  /\ hret.paths = <<Join(<<str_food, StrLower(str_Vegetables)>>)>>
  /\ DOMAIN hret.uri_map = {Join(<<str_food, StrLower(str_Vegetables)>>)}
  /\ hret.uri_map[Join(<<str_food, StrLower(str_Vegetables)>>)] = "http://x/vegetables"

\* C18: when each of the n broader entries of the concept resolves to a root, the
\* roots being different concepts, the walk returns n paths, the i-th being
\* <root segment of entry i>/<normalised label of the concept>.
C18_OnePathPerBroaderInOrder ==
  (HDone /\ ~hmiss) =>
    LET label == hlog[Len(hlog)].frame.label
        leaf == Resolve(hworld, label)
        broader == Broader(leaf)
        root(i) == Resolve(hworld, BroaderLabel(broader[i]))
        root_map == ROOT_MAPPING(hsource)
        segment(c) == IF StrLower(c.prefLabel) \in DOMAIN root_map
                      THEN root_map[StrLower(c.prefLabel)]
                      ELSE _normalize_label(c.prefLabel)
    IN (/\ broader # <<>>
        /\ \A i \in 1..Len(broader) :
             /\ BroaderLabel(broader[i]) # <<>>
             /\ root(i) # None
             /\ Broader(root(i)) = <<>>
             /\ root(i).uri # leaf.uri
        /\ \A i \in 1..Len(broader), j \in 1..Len(broader) :
             i # j => root(i).uri # root(j).uri)
       => /\ hret.found
          /\ hret.paths =
               [i \in 1..Len(broader) |->
                  segment(root(i)) \o <<"/">> \o _normalize_label(PrefLabel(leaf, label))]

\* potatoes below food, nutrition and a third root.
C18_Witness ==
  /\ HDone /\ ~hmiss
  /\ hsource = "wikidata"
  /\ Len(hret.paths) = 3
  /\ hret.paths[1] = Join(<<str_food, str_potatoes>>)
  /\ hret.paths[2] = Join(<<str_nutrition, str_potatoes>>)

\* C19: on a linear taxonomy c0 -> ... -> cn with n < MAX_DEPTH, distinct URIs and a
\* root outside the root table, the walk from c0 is found and returns the one path
\* normalize(cn)/.../normalize(c0), lower-cased with "_" for " " and "-", and a uri_map
\* that maps, for every i in 0..n, the prefix ending at ci to the URI of ci.
C19_LinearChain ==
  \A n \in 0..(MAX_DEPTH - 1) :
    (HDone /\ ~hmiss /\ hworld = ChainWorld(n)) =>
      LET seg(i) == str_sub_tier_ \o Digits(i)
          prefix(i) == Join([k \in 1..(n - i + 1) |-> seg(n + 1 - k)])
      IN /\ hret.found
         /\ hret.paths = <<prefix(0)>>
         /\ DOMAIN hret.uri_map = {prefix(i) : i \in 0..n}
         /\ \A i \in 0..n : hret.uri_map[prefix(i)] = ChainUri(i)

\* The longest chain of the claim: 15 concepts, 15 frames.
C19_Witness ==
  /\ HDone /\ ~hmiss
  /\ hworld = ChainWorld(MAX_DEPTH - 1)
  /\ hret.found
  /\ Len(hret.paths) = 1
  /\ Cardinality(DOMAIN hret.uri_map) = MAX_DEPTH

\* C20: in the triple a frame returns, the entry frame included, every value of
\* uri_map is a non-empty URI and every key is a segment-aligned prefix of one of
\* the paths.
C20_UriMapWellFormed ==
  hret # None =>
    \A key \in DOMAIN hret.uri_map :
      /\ hret.uri_map[key] # ""
      /\ \E n \in 1..Len(hret.paths) : IsSegmentPrefix(key, hret.paths[n])

\* A final result with several paths and keys of one, two and three segments.
C20_Witness ==
  /\ HDone
  /\ Len(hret.paths) = 2
  /\ Join(<<str_nutrition>>) \in DOMAIN hret.uri_map
  /\ Join(<<str_nutrition, str_beta>>) \in DOMAIN hret.uri_map
  /\ Join(<<str_nutrition, str_beta, str_alpha>>) \in DOMAIN hret.uri_map
  /\ Join(<<str_food, str_alpha>>) \in DOMAIN hret.uri_map

(***************************************************************************)
(* Properties of get_labels, get_labels_batch and cache_stats.             *)
(***************************************************************************)
\* The file at path holds a record that is fresh at time t.
FreshRecord(fs, path, t) ==
  /\ fs[path].kind = "json"
  /\ t - Get(fs[path].data, "_cached_at", 0) <= CACHE_TTL_SECONDS

\* How often the upstream was called for uri in the call at hand.
LabelCalls(uri) == Cardinality({k \in 1..Len(lcall.calls) : lcall.calls[k] = uri})

\* The orders a list can be put in.
Orders(seq) ==
  {[i \in 1..Len(seq) |-> seq[p[i]]] :
     p \in {q \in [1..Len(seq) -> 1..Len(seq)] : \A i, j \in 1..Len(seq) : q[i] = q[j] => i = j}}

\* C21: whatever the URI, the language list L, the source, the cached record and the
\* upstream answer, every key of a mapping get_labels returns is a member of L.
C21_OnlyRequestedLanguages ==
  (lcall # Idle) =>
    \A uri \in DOMAIN lcall.labels :
      \A lang \in DOMAIN lcall.labels[uri] : InList(lang, lcall.languages)

\* A hit on a cached record that holds a French label nobody asked for.
C21_Witness ==
  /\ pc = "returned"
  /\ lcall.at = "get_labels"
  /\ lcall.languages = <<"en">>
  /\ lcall.calls = <<>>
  /\ lcall.uris[1] \in UriSet
  /\ files[LabelsPath(lcall.uris[1], lcall.source)].kind = "json"
  /\ "fr" \in DOMAIN Get(files[LabelsPath(lcall.uris[1], lcall.source)].data, "labels", <<>>)
  /\ DOMAIN lcall.labels[lcall.uris[1]] = {"en"}

\* C22: when the labels adapter gives an empty mapping, get_labels returns {} and
\* leaves the cache directory as it was, so that a next get_labels for the same URI and
\* source calls the upstream again; a call that changes the directory got a non-empty
\* mapping and wrote it to the file of its key.
C22_EmptyNotCached ==
  (pc = "returned" /\ lcall.at = "get_labels" /\ lcall.calls # <<>>) =>
    LET uri == lcall.uris[1]
        all_labels == _upstream_get_labels(uri, lcall.source, lcall.languages,
                                           lcall.answers[uri])
        path == LabelsPath(uri, lcall.source)
    IN /\ DOMAIN all_labels = {} =>
            /\ DOMAIN lcall.labels[uri] = {}
            /\ files = lcall.files0
            /\ \A languages \in LanguageLists \ {<<>>}, lresp \in LabelResponses :
                 get_labels(files, uri, languages, lcall.source, lresp, now, TRUE).upstream
       /\ files # lcall.files0 =>
            /\ DOMAIN all_labels # {}
            /\ \A p \in Paths \ {path} : files[p] = lcall.files0[p]
            /\ files[path].data.labels = all_labels

\* The request of the labels failed, over an expired record that stays in place.
C22_Witness ==
  /\ pc = "returned"
  /\ lcall.at = "get_labels"
  /\ lcall.calls = <<lcall.uris[1]>>
  /\ lcall.answers[lcall.uris[1]].kind = "http_status"
  /\ DOMAIN lcall.labels[lcall.uris[1]] = {}
  /\ files[LabelsPath(lcall.uris[1], lcall.source)].kind = "json"
  /\ ~FreshRecord(files, LabelsPath(lcall.uris[1], lcall.source), now)
  /\ files = lcall.files0

\* C23: for a list of distinct non-empty URIs and a non-empty language list,
\* get_labels_batch calls the upstream exactly once for each URI without a fresh labels
\* record in the cache and not at all for a URI with one, and the mapping it returns has
\* exactly one entry per requested URI.
C23_OneCallPerUncachedUri ==
  (pc = "returned" /\ lcall.at = "get_labels_batch" /\ lcall.languages # <<>>
     /\ \A i, j \in 1..Len(lcall.uris) : lcall.uris[i] = lcall.uris[j] => i = j) =>
    /\ \A k \in 1..Len(lcall.uris) :
         LabelCalls(lcall.uris[k]) =
           IF FreshRecord(lcall.files0, LabelsPath(lcall.uris[k], lcall.source), now)
           THEN 0 ELSE 1
    /\ Len(lcall.calls) <= Len(lcall.uris)
    /\ DOMAIN lcall.labels = {lcall.uris[k] : k \in 1..Len(lcall.uris)}

\* Labels are cached for the first URI and not for the second: one upstream call, for
\* the second, and labels for both.
C23_Witness ==
  /\ pc = "returned"
  /\ lcall.at = "get_labels_batch"
  /\ lcall.uris = LabelUris
  /\ lcall.languages = <<"en">>
  /\ FreshRecord(lcall.files0, LabelsPath(LabelUris[1], lcall.source), now)
  /\ lcall.files0[LabelsPath(LabelUris[2], lcall.source)] = Missing
  /\ lcall.calls = <<LabelUris[2]>>
  /\ \A u \in UriSet : DOMAIN lcall.labels[u] = {"en"}

\* C24: with one upstream answer per URI, get_labels_batch run on any permutation of
\* the list, from the same directory, returns the same mapping and leaves the same
\* labels cache records.
C24_OrderIndependent ==
  (pc = "returned" /\ lcall.at = "get_labels_batch") =>
    \A uris \in Orders(lcall.uris) :
      LET r == get_labels_batch(lcall.files0, uris, lcall.languages, lcall.source,
                                lcall.answers, now, writable)
      IN /\ r.labels = lcall.labels
         /\ r.files = files

\* A batch of two URIs, one of which got no labels, that wrote one record.
C24_Witness ==
  /\ pc = "returned"
  /\ lcall.at = "get_labels_batch"
  /\ lcall.uris = <<LabelUris[2], LabelUris[1]>>
  /\ lcall.source = "agrovoc"
  /\ Len(lcall.calls) = 2
  /\ DOMAIN lcall.labels[LabelUris[1]] # {}
  /\ DOMAIN lcall.labels[LabelUris[2]] = {}
  /\ files[LabelsPath(LabelUris[1], "agrovoc")] # lcall.files0[LabelsPath(LabelUris[1], "agrovoc")]

\* C27: in a sequential run of lookup_concept and get_labels calls on a directory
\* that starts empty, with every write succeeding, cache_stats returns as concept_count
\* the number of distinct concept keys the upstream returned a record for, as
\* labels_count the number of distinct labels keys it returned a non-empty mapping for,
\* and as not_found_count the number of distinct keys it reported absent, expired
\* entries included.
C27_StatsCountKeys ==
  (stats # None /\ lhist.empty) =>
    /\ stats.concept_count = Cardinality(lhist.concept)
    /\ stats.labels_count = Cardinality(lhist.labels)
    /\ stats.not_found_count = Cardinality(lhist.absent)

\* A labels record and a negative entry, both past their TTL, are counted.
C27_Witness ==
  /\ stats # None
  /\ lhist.empty
  /\ stats.concept_count = 0 /\ stats.labels_count = 1 /\ stats.not_found_count = 1
  /\ \E k \in ConceptKeys :
       /\ k \in DOMAIN files[_get_not_found_cache_path].data.entries
       /\ now - files[_get_not_found_cache_path].data.entries[k].cached_at > CACHE_TTL_SECONDS
  /\ \E p \in LabelsPaths : files[p].kind = "json" /\ ~FreshRecord(files, p, now)

(***************************************************************************)
(* Properties of the request surface.                                      *)
(***************************************************************************)
\* C25: the lookup endpoint answers 404 exactly when lookup_concept returns None, which
\* it does on a negative-cache hit, on an authoritative absence and on a transient
\* failure, and answers with the concept otherwise; the hierarchy endpoint answers 200
\* in every case, with found = false and paths = [] when the starting label does not
\* resolve.
C25_StatusFromResolver ==
  (response # None) =>
    IF response.endpoint = "lookup"
    THEN /\ response.answer.status = 404 <=> response.returned = None
         /\ response.answer.status = 404 <=>
              response.outcome \in {"negative_hit", "absent", "transient_failure"}
         /\ response.answer.status # 404 =>
              /\ response.answer.status = 200
              /\ response.answer.body.uri = response.returned.uri
              /\ response.answer.body.prefLabel = response.returned.prefLabel
              /\ response.answer.body.broader = response.returned.broader
    ELSE /\ response.answer.status = 200
         /\ response.answer.body.found = response.returned.found
         /\ response.answer.body.paths = response.returned.paths
         /\ response.outcome = "absent" =>
              /\ response.answer.body.found = FALSE
              /\ response.answer.body.paths = <<>>

\* A 404 for a key in the negative cache.
C25_Witness ==
  /\ response # None
  /\ response.endpoint = "lookup"
  /\ response.outcome = "negative_hit"
  /\ response.returned = None
  /\ response.answer.status = 404

(***************************************************************************)
(* Properties of the round trip through a cache file.                      *)
(***************************************************************************)
\* A dict as a mapping, without its _cached_at.
Unstamped(d) == [key \in DOMAIN AsMap(d) \ {"_cached_at"} |-> AsMap(d)[key]]

BothSaved(p, q) ==
  /\ p # q
  /\ procs[p].pc = "return" /\ procs[q].pc = "return"
  /\ procs[p].lookups = 1 /\ procs[q].lookups = 1
  /\ procs[p].source = procs[q].source
  /\ procs[p].calls = 1 /\ procs[q].calls = 1
  /\ procs[p].up.concept # None /\ procs[q].up.concept # None
  /\ procs[p].order > procs[q].order

\* C28: with two concurrent lookups of one key on a cache with no entry for it, both
\* may call the upstream; once both are done the positive file holds the complete
\* record of the lookup that wrote last, and each lookup returns the record of its own
\* upstream call.
C28_LastWriterWins ==
  \A p, q \in Threads :
    BothSaved(p, q) =>
      /\ files[CPath(p)] = Json(procs[p].content)
      /\ procs[p].result = procs[p].up.concept
      /\ procs[q].result = procs[q].up.concept

\* Both lookups have called the upstream and neither has written yet.
C28_BothUpstream ==
  \A p \in Threads :
    /\ procs[p].pc = "save_open"
    /\ procs[p].source = "agrovoc"
    /\ procs[p].lookups = 1


\* The records the upstream can produce for the key of a source.
CRecords(source) ==
  {_upstream_lookup(CLabel, CLang, source, resp, bresp).concept :
     resp \in CSearchResponses, bresp \in CBroaderResponses} \ {None}

\* A record without its _cached_at.
NoStamp(data) == [f \in DOMAIN data \ {"_cached_at"} |-> data[f]]

\* C29: two concurrent _add_to_not_found_cache calls for distinct keys can leave
\* _not_found.json with one of the keys only.  The lost entry costs one more upstream
\* call at the next lookup of its key and nothing else: a step of
\* _add_to_not_found_cache changes no other file of the directory, a lookup calls the
\* upstream exactly once when both caches miss and not at all otherwise, a lookup
\* whose upstream call reports the key absent returns None, and a record a lookup
\* returns is one the upstream produced for its key.
C29_LostNegativeCostsOneCall ==
  [][\A p \in Threads :
       /\ (procs[p].pc \in {"neg_read", "neg_open", "neg_dump"} /\ procs'[p] # procs[p]) =>
            \A path \in Paths \ {_get_not_found_cache_path} : files'[path] = files[path]
       /\ procs'[p].pc = "return" =>
            /\ procs'[p].calls = IF procs'[p].missed THEN 1 ELSE 0
            /\ (procs'[p].calls = 1 /\ procs'[p].up.concept = None) =>
                 procs'[p].result = None
            /\ procs'[p].result # None =>
                 /\ NoStamp(procs'[p].result) \in CRecords(procs'[p].source)
                 /\ procs'[p].calls = 1 => procs'[p].result = procs'[p].up.concept
                 /\ procs'[p].calls = 0 => procs'[p].result = procs'[p].cached]_vars

\* Both threads have written a negative entry, for distinct keys; the file holds the
\* entry of q alone, a positive record is in the directory, and p, looking its key up
\* again, has called the upstream once more.
C29_Witness ==
  \E p, q \in Threads :
    /\ p # q
    /\ procs[p].negs # {} /\ procs[q].negs # {} /\ procs[p].negs # procs[q].negs
    /\ files[_get_not_found_cache_path].kind = "json"
    /\ DOMAIN files[_get_not_found_cache_path].data.entries = procs[q].negs
    /\ procs[p].lookups = 2
    /\ CKey(p) \in procs[p].negs
    /\ procs[p].pc = "return"
    /\ procs[p].calls = 1
    /\ procs[p].up.query_failed

(***************************************************************************)
(* Properties of freshness.                                                *)
(***************************************************************************)
\* C30: both caches use one TTL, 60*60*24*60 = 5,184,000 seconds, and the bound is
\* inclusive in both: _load_from_cache returns the record, and _is_in_not_found_cache
\* reports the entry, iff it exists, parses and now - timestamp <= ttl; a record or
\* an entry without a timestamp counts as written at time 0.
C30_SameInclusiveTtl ==
  /\ CACHE_TTL_SECONDS = 5184000
  /\ jcall.at = "load" =>
       LET f == files[SeedPath]
           fresh == /\ f.kind = "json"
                    /\ jcall.t - (IF "_cached_at" \in DOMAIN f.data
                                  THEN f.data["_cached_at"] ELSE 0) <= 5184000
       IN /\ (jcall.value # None) <=> fresh
          /\ fresh => jcall.value = f.data
  /\ jcall.at = "is_negative" =>
       LET f == files[_get_not_found_cache_path]
           fresh == /\ f.kind = "json"
                    /\ SeedKey \in DOMAIN f.data.entries
                    /\ jcall.t - (IF "cached_at" \in DOMAIN f.data.entries[SeedKey]
                                  THEN f.data.entries[SeedKey].cached_at ELSE 0) <= 5184000
       IN jcall.value <=> fresh

\* An entry without a timestamp is reported at time 5,184,000 exactly, and the record
\* beside it was stamped at time 0.
C30_Witness ==
  /\ jcall.at = "is_negative"
  /\ jcall.t = 5184000
  /\ jcall.value = TRUE
  /\ files[_get_not_found_cache_path] = Json([entries |-> [k \in {SeedKey} |-> TEntryNoStamp]])
  /\ files[SeedPath].kind = "json"
  /\ Get(files[SeedPath].data, "_cached_at", -1) = 0

(***************************************************************************)
(* Properties of lookup_concept over records without a uri.                *)
(***************************************************************************)
\* The positive file of the key holds a record that is fresh at time t and whose uri
\* is empty or missing.
FreshNoUri(fs, path, t) ==
  /\ fs[path].kind = "json"
  /\ t - Get(fs[path].data, "_cached_at", 0) <= CACHE_TTL_SECONDS
  /\ Get(fs[path].data, "uri", "") = ""

\* C31: a fresh positive record whose uri is empty or missing counts as absent:
\* lookup goes on to the negative-cache read and, when the key is not negative-cached,
\* to the upstream call, and never returns that record; a key with both a fresh
\* positive record with a uri and a fresh negative entry is answered by the record.
C31_NoUriIsAbsent ==
  /\ (pc # "idle" /\ FreshNoUri(files0, CallPath, now)) =>
       /\ Len(trace) >= 1 => pc # "load"
       /\ Len(trace) = 1 => pc = "is_negative"
       /\ Len(trace) >= 2 => (trace[1] = "load" /\ trace[2] = "is_negative")
       /\ (Len(trace) = 2 /\ ~FreshNegative(files0, CallKey, now)) => pc = "upstream"
       /\ (Len(trace) >= 2 /\ FreshNegative(files0, CallKey, now)) =>
            (pc = "return" /\ result = None /\ UpstreamCalls = 0)
       /\ (pc = "return" /\ ~FreshNegative(files0, CallKey, now)) => UpstreamCalls = 1
       /\ pc = "return" => result # files0[CallPath].data
  /\ (pc = "return" /\ FreshPositive(files0, CallPath, now)
        /\ FreshNegative(files0, CallKey, now)) =>
       (result = files0[CallPath].data /\ trace = <<"load">>)

\* A fresh record without a uri member, a key that is not negative-cached, and an
\* upstream that supplies the concept.
C31_Witness ==
  /\ pc = "return"
  /\ FreshNoUri(files0, CallPath, now)
  /\ "uri" \notin DOMAIN files0[CallPath].data
  /\ ~FreshNegative(files0, CallKey, now)
  /\ UpstreamCalls = 1
  /\ result = up.concept
  /\ result # None

(***************************************************************************)
(* Properties of the adapters' search.                                     *)
(***************************************************************************)
\* C32, as claimed: of the candidates of a search answer those without a usable URI
\* are skipped: the search returns a record whenever one candidate at least has a
\* URI, and (absent, query_failed = false) only when none has.
C32_AsClaimed ==
  (jcall.at = "search" /\ jcall.resp.kind = "json") =>
    /\ (\E i \in 1..Len(jcall.resp.results) : jcall.resp.results[i].uri # "") <=>
         jcall.outcome.concept # None
    /\ jcall.outcome.concept = None => ~jcall.outcome.query_failed

(***************************************************************************)
(* Properties of the results of build_hierarchy_paths.                     *)
(***************************************************************************)
\* C33: a frame whose concept has broader entries and whose broader recursions gave
\* no path returns exactly one path, the join of its concept's normalised label and
\* the segments accumulated so far, with found = true iff its URI is non-empty, and
\* a uri_map that maps the prefixes of that path whose URI is non-empty, and only
\* those, each to its URI.
C33_PartialPath ==
  /\ \A k \in 1..Len(hlog) :
       (hlog[k].frame.at = "loop" /\ hlog[k].frame.all_paths = <<>>) => hlog[k].why = "partial"
  /\ \A k \in Returned("partial") :
       LET f == hlog[k].frame
           segs == <<_normalize_label(PrefLabel(f.concept, f.label))>> \o f._current_path
           uris == <<ConceptUri(f.concept)>> \o f._current_uris
           res == hlog[k].result
       IN /\ Broader(f.concept) # <<>>
          /\ f.all_paths = <<>>
          /\ res.paths = <<Join(segs)>>
          /\ res.found <=> ConceptUri(f.concept) # ""
          /\ DOMAIN res.uri_map = {Join(SubSeq(segs, 1, i)) : i \in {j \in 1..Len(segs) : uris[j] # ""}}
          /\ \A i \in 1..Len(segs) : uris[i] # "" => res.uri_map[Join(SubSeq(segs, 1, i))] = uris[i]

\* beta, without URI and with an unresolved broader entry, gave the partial path
\* beta/alpha, not found, with one key; alpha then gave its own partial path, found.
C33_Witness ==
  /\ HDone
  /\ hworld = NoUriWorld
  /\ Len(hlog) = 3
  /\ hlog[2].why = "partial"
  /\ hlog[2].result = HResult(<<Join(<<str_beta, str_alpha>>)>>, FALSE,
                              Join(<<str_beta, str_alpha>>) :> "http://x/a")
  /\ hlog[3].why = "partial"
  /\ hret = HResult(<<str_alpha>>, TRUE, str_alpha :> "http://x/a")


\* C34, as claimed: whenever the uri_map of a branch and the maps merged before it
\* both have a key, they give it the same URI, so that all_uri_maps.update never
\* replaces a URI by a different one.
C34_AsClaimed ==
  (hstack # <<>> /\ Top.at = "wait" /\ hret # None /\ hret.found) =>
    \A key \in DOMAIN Top.all_uri_maps \cap DOMAIN hret.uri_map :
      Top.all_uri_maps[key] = hret.uri_map[key]

\* The number of segments of a path, and the segment it ends with.
Segments(path) == 1 + Cardinality({i \in 1..Len(path) : path[i] = "/"})
EndsWithSegment(path, seg) ==
  /\ Len(seg) <= Len(path)
  /\ SubSeq(path, Len(path) - Len(seg) + 1, Len(path)) = seg
  /\ Len(seg) = Len(path) \/ path[Len(path) - Len(seg)] = "/"

\* The frame of the top-level call, once the call has returned.
StartFrame == hlog[Len(hlog)].frame

\* C37, as claimed: every path of the result of a walk has between 1 and 15
\* segments and ends with the normalised prefLabel of the concept the starting label
\* resolved to.
C37_AsClaimed ==
  HDone =>
    \A n \in 1..Len(hret.paths) :
      /\ Segments(hret.paths[n]) \in 1..15
      /\ EndsWithSegment(hret.paths[n],
                         _normalize_label(PrefLabel(StartFrame.concept, StartFrame.label)))

\* The concept of the top-level call is a root that the root table of the source maps.
StartIsMappedRoot ==
  /\ StartFrame.concept # None
  /\ Broader(StartFrame.concept) = <<>>
  /\ StrLower(PrefLabel(StartFrame.concept, StartFrame.label)) \in DOMAIN ROOT_MAPPING(hsource)

\* C37, amended: every path of the result of a walk has between 1 and 15 segments
\* and ends with the normalised prefLabel of the concept the starting label resolved
\* to, unless that concept is itself a root whose lower-cased prefLabel is a key of the
\* root table of the source: the result is then the one path made of the mapped value.
C37_PathLengthAndLeaf ==
  HDone =>
    /\ \A n \in 1..Len(hret.paths) : Segments(hret.paths[n]) \in 1..15
    /\ IF StartIsMappedRoot
       THEN hret.paths =
              <<ROOT_MAPPING(hsource)[StrLower(PrefLabel(StartFrame.concept, StartFrame.label))]>>
       ELSE \A n \in 1..Len(hret.paths) :
              EndsWithSegment(hret.paths[n],
                              _normalize_label(PrefLabel(StartFrame.concept, StartFrame.label)))

\* A walk up a chain longer than the depth cap returned one path of 15 segments that
\* ends with the normalised label of the start, "sub_tier_0".
C37_Witness ==
  /\ HDone
  /\ Returned("depth_cap") # {}
  /\ Len(hret.paths) = 1
  /\ Segments(hret.paths[1]) = 15
  /\ EndsWithSegment(hret.paths[1], str_sub_tier_ \o <<"0">>)


\* Every record of the taxonomy has a URI.
AllHaveUri == \A l \in DOMAIN hworld : ConceptUri(hworld[l]) # ""

\* C38: when every resolved concept has a non-empty uri, the top-level call returns
\* found = false iff the lookup of the starting label came back absent, and then
\* paths = [] and uri_map = {}; in every other case paths is non-empty, also when
\* every broader branch is absent, depth-capped or pruned as a cycle.
C38_FoundIffStartResolved ==
  (HDone /\ AllHaveUri) =>
    /\ ~hret.found <=> hlog[Len(hlog)].why = "absent"
    /\ ~hret.found => (hret.paths = <<>> /\ hret.uri_map = <<>>)
    /\ hret.found => hret.paths # <<>>
    /\ hlog[Len(hlog)].why \in {"absent", "root", "partial", "all"}

\* The starting label resolved and every lookup below it came back absent: one
\* partial path, found.
C38_Witness ==
  /\ HDone
  /\ AllHaveUri
  /\ hlog[Len(hlog)].why = "partial"
  /\ \A k \in 1..(Len(hlog) - 1) : hlog[k].why = "absent"
  /\ Len(hlog) = 4
  /\ hret.found
  /\ hret.paths = <<str_potatoes>>

(***************************************************************************)
(* Properties of sequences of lookups.                                     *)
(***************************************************************************)
\* C35: in a sequential run of lookups that starts on an empty cache, with a clock
\* that does not go back and no other writer, no key has at one time a fresh positive
\* record with a non-empty uri and a fresh negative entry, also when the upstream
\* answer for the key changes from one call to the next.
C35_NeverBothFresh ==
  \A label \in Labels, lang \in Langs, source \in Sources :
    ~(/\ FreshPositive(files, ConceptPath(label, lang, source), now)
      /\ FreshNegative(files, ConceptKey(label, lang, source), now))

\* The upstream reported the key absent, and after the entry expired it supplied the
\* concept: the key has a fresh positive record and an expired negative entry.
C35_Witness ==
  /\ pc = "return"
  /\ FreshPositive(files, CallPath, now)
  /\ files[_get_not_found_cache_path].kind = "json"
  /\ CallKey \in DOMAIN files[_get_not_found_cache_path].data.entries
  /\ ~FreshNegative(files, CallKey, now)
  /\ UpstreamCalls = 1

(***************************************************************************)
(* Properties of cached labels.                                            *)
(***************************************************************************)
\* C36: once a get_labels call has cached a non-empty mapping for a URI, every
\* get_labels call for that URI and source within the TTL calls no upstream, returns
\* the cached labels of the languages it asks for and nothing else, also when it asks
\* for a language that the first call did not ask for and that the upstream has, and
\* leaves the record as it is.
C36_CachedLabelsNotExtended ==
  (pc = "returned" /\ lcall.at = "get_labels") =>
    LET uri == lcall.uris[1]
        path == LabelsPath(uri, lcall.source)
        before == lcall.files0[path]
    IN (/\ before.kind = "json"
        /\ now - before.data["_cached_at"] <= CACHE_TTL_SECONDS) =>
         /\ DOMAIN before.data.labels # {}
         /\ lcall.calls = <<>>
         /\ DOMAIN lcall.labels[uri] =
              {l \in DOMAIN before.data.labels : InList(l, lcall.languages)}
         /\ \A l \in DOMAIN lcall.labels[uri] : lcall.labels[uri][l] = before.data.labels[l]
         /\ files = lcall.files0

\* A record cached for <<"en">> one TTL ago answers a call for <<"nb", "en">> with the
\* English label alone, although the upstream has a Norwegian one.
C36_Witness ==
  /\ pc = "returned"
  /\ lcall.at = "get_labels"
  /\ lcall.languages = <<"nb", "en">>
  /\ lcall.source = "agrovoc"
  /\ lcall.files0[LabelsPath(lcall.uris[1], "agrovoc")].kind = "json"
  /\ now - lcall.files0[LabelsPath(lcall.uris[1], "agrovoc")].data["_cached_at"] = CACHE_TTL_SECONDS
  /\ DOMAIN lcall.files0[LabelsPath(lcall.uris[1], "agrovoc")].data.labels = {"en"}
  /\ lcall.answers[lcall.uris[1]].kind = "json"
  /\ \E i \in 1..Len(lcall.answers[lcall.uris[1]].labels) :
       /\ lcall.answers[lcall.uris[1]].labels[i].lang = "nb"
       /\ lcall.answers[lcall.uris[1]].labels[i].value # ""
  /\ DOMAIN lcall.labels[lcall.uris[1]] = {"en"}
  /\ lcall.calls = <<>>

NotFoundEntries(f) == Get(f.data, "entries", <<>>)

\* The keys whose entry the step at hand writes: new ones and ones with a new value.
Written ==
  {k \in DOMAIN NotFoundEntries(files'[_get_not_found_cache_path]) :
     \/ k \notin DOMAIN NotFoundEntries(files[_get_not_found_cache_path])
     \/ NotFoundEntries(files'[_get_not_found_cache_path])[k]
          # NotFoundEntries(files[_get_not_found_cache_path])[k]}

\* C40: while _not_found.json is readable, a step of any operation of the resolver
\* removes none of its entries and writes at most one, the key added, stamped with the
\* current time; every other entry keeps its key and its cached_at, expired or not,
\* with a positive record for its key or not.  Only when the file does not parse does
\* a write replace it, by a file that holds the added key alone.
C40_EntriesKept ==
  [][LET f == files[_get_not_found_cache_path]
         g == files'[_get_not_found_cache_path]
     IN /\ f.kind = "json" =>
             /\ g.kind = "json"
             /\ DOMAIN NotFoundEntries(f) \subseteq DOMAIN NotFoundEntries(g)
             /\ Cardinality(Written) <= 1
             /\ \A k \in Written :
                  /\ NotFoundEntries(g)[k] = [cached_at |-> now]
                  /\ added'[k] = now
                  /\ added' = [added EXCEPT ![k] = now]
        /\ (f.kind = "corrupt" /\ g # f) =>
             /\ g.kind = "json"
             /\ Cardinality(DOMAIN NotFoundEntries(g)) = 1
             /\ \A k \in DOMAIN NotFoundEntries(g) :
                  NotFoundEntries(g)[k] = [cached_at |-> now] /\ added'[k] = now
    ]_vars

\* The expired entry of a key is still in the file, with its old stamp, after a lookup
\* of the key has saved a positive record and another key has been added.
C40_Witness ==
  /\ pc = "idle"
  /\ files[SeedPath].kind = "json"
  /\ files[SeedPath].data["_cached_at"] > StartTime
  /\ files[_get_not_found_cache_path].kind = "json"
  /\ SeedKey \in DOMAIN NotFoundEntries(files[_get_not_found_cache_path])
  /\ NotFoundEntries(files[_get_not_found_cache_path])[SeedKey].cached_at
       = StartTime - CACHE_TTL_SECONDS - 1
  /\ \E k \in ConceptKeys \ {SeedKey} : added[k] > StartTime
  /\ Cardinality(DOMAIN NotFoundEntries(files[_get_not_found_cache_path])) >= 2

====
